---- MODULE Spec2Model ----
(***************************************************************************)
(* Model of the TLS benchmark harness of s2n-tls (bindings/rust/bench):    *)
(* the in-memory duplex transport (ConnectedBuffer), the s2n adapter       *)
(* (S2NConnection) and the pair orchestrator (TlsConnPair).                *)
(*                                                                         *)
(* The specifications share the variables:                                 *)
(*   SpecBuf    - a driver calling the ConnectedBuffer operations directly *)
(*   SpecPipe   - the same driver, with a log of the bytes written and     *)
(*                read on each endpoint                                    *)
(*   Spec       - construction (new / wrap), handshake, shrink and drop of *)
(*                a TlsConnPair over the whole configuration grid          *)
(*   SpecXfer   - round-trip transfers on a default-configured pair        *)
(*   SpecConn   - send and recv of one S2NConnection                       *)
(*   SpecReport - the negotiated parameters an adapter reports             *)
(*   SpecPair   - the life of one pair without its teardown                *)
(*   SpecLegs   - TlsConnPair over any two TlsConnection implementations   *)
(*   SpecCb     - the send and receive callbacks of the adapter            *)
(*   SpecConfig - S2NConnection::make_config over the configuration grid   *)
(*   SpecMem    - a run of the memory benchmark (bin/memory.rs)            *)
(***************************************************************************)
EXTENDS Integers, Sequences, FiniteSets, TLC

VARIABLES
    queues,   \* the heap of Rc<RefCell<VecDeque<u8>>> objects, by identity (index)
    hs,       \* SpecBuf: the ConnectedBuffer handles held by the driver
    ret,      \* SpecBuf: the last ConnectedBuffer operation and what it returned
    box,      \* the heap of Pin<Box<ConnectedBuffer>> allocations, by address
    conn,     \* the two S2NConnection objects of the pair, by role
    pair,     \* how the TlsConnPair was built and what state it is in
    op,       \* the last TlsConnPair operation and its outcome
    data,     \* the caller's transfer buffer: content before and after the last call
    dropLog,  \* the destruction events of the pair, in order
    pipeLog,  \* SpecPipe: the bytes each endpoint has written and has read so far
    bench     \* SpecMem: the memory benchmark's position, pairs and snapshots

vars == <<queues, hs, ret, box, conn, pair, op, data, dropLog, pipeLog, bench>>

----------------------------------------------------------------------------
(* Bounds of the model *)

\* the driver of SpecBuf never lets a queue hold more than this many bytes
MaxQueue == 2
\* the longest source slice / destination slice the SpecBuf driver passes
MaxLen == 2
\* the longest buffer SpecXfer passes to round_trip_transfer
XferMaxLen == 3
\* the number of round trips SpecXfer performs on one pair
MaxTrips == 2

\* harness.rs:273-274 reserve(10000), scaled down
ReserveCap == 2

Byte == {0, 1}

Min(a, b) == IF a <= b THEN a ELSE b
Max(a, b) == IF a >= b THEN a ELSE b

SeqsUpTo(S, n) == UNION {[1..k -> S] : k \in 0..n}

\* F applied to the value of v, v being evaluated once
Bind(v, F(_)) == CHOOSE y \in {F(x) : x \in {v}} : TRUE

----------------------------------------------------------------------------
(* std::collections::VecDeque<u8> as the harness uses it: a ring buffer   *)
(* with logical content buf, physical start head and capacity cap.        *)

\* VecDeque::new() followed by reserve(c)
NewQueue(c) == [buf |-> <<>>, head |-> 0, cap |-> c]

\* the "front" slice of as_slices(): the part of the content stored from
\* head up to the physical end of the ring
FrontLen(q) == IF Len(q.buf) = 0 THEN 0 ELSE Min(Len(q.buf), q.cap - q.head)

\* <VecDeque<u8> as Read>::read: fills dest from the front slice only, then
\* drains what it copied; draining the whole content resets head
VecDeque_read(q, dlen) ==
    LET n == Min(dlen, FrontLen(q))
        rest == SubSeq(q.buf, n + 1, Len(q.buf))
    IN [q |-> [buf |-> rest,
               head |-> IF rest = <<>> THEN 0 ELSE (q.head + n) % q.cap,
               cap |-> q.cap],
        n |-> n,
        out |-> SubSeq(q.buf, 1, n)]

\* VecDeque::reserve as extend calls it: amortised growth; the ring is
\* re-laid out by handle_capacity_increase
VecDeque_reserve(q, additional) ==
    LET len == Len(q.buf)
        need == len + additional
        newcap == Max(2 * q.cap, need)
        head_len == q.cap - q.head
        tail_len == len - head_len
    IN IF need <= q.cap THEN q
       ELSE IF q.head <= q.cap - len THEN [q EXCEPT !.cap = newcap]
       ELSE IF head_len > tail_len /\ newcap - q.cap >= tail_len
            THEN [q EXCEPT !.cap = newcap]
       ELSE [q EXCEPT !.cap = newcap, !.head = newcap - head_len]

\* variant of write that puts src in front of the content
VecDeque_write_front(q, src) ==
    LET r == VecDeque_reserve(q, Len(src))
    IN [q |-> [r EXCEPT !.buf = src \o r.buf], n |-> Len(src)]

\* <VecDeque<u8> as Write>::write: extend(src); Ok(src.len())
VecDeque_write(q, src) ==
    LET r == VecDeque_reserve(q, Len(src))
    IN [q |-> [r EXCEPT !.buf = r.buf \o src], n |-> Len(src)]

\* clear() then shrink_to_fit()
VecDeque_clear_shrink(q) == [buf |-> <<>>, head |-> 0, cap |-> 0]

----------------------------------------------------------------------------
(* ConnectedBuffer: a handle is a pair of queue identities *)

\* ConnectedBuffer::new: two fresh queue objects
ConnectedBuffer_new(qs) ==
    [queues |-> qs \o <<NewQueue(ReserveCap), NewQueue(ReserveCap)>>,
     h |-> [recv |-> Len(qs) + 1, send |-> Len(qs) + 2]]

\* PartialEq: Rc::ptr_eq on both queues
ConnectedBuffer_eq(a, b) == a.recv = b.recv /\ a.send = b.send

\* variant of inverse that keeps the send queue where it is
ConnectedBuffer_inverse_keep_send(h) == [recv |-> h.send, send |-> h.send]

\* inverse(self)
ConnectedBuffer_inverse(h) == [recv |-> h.send, send |-> h.recv]

\* shrink(&mut self): clears and shrinks the receive queue, then the send queue
ConnectedBuffer_shrink(qs, h) ==
    LET q1 == [qs EXCEPT ![h.recv] = VecDeque_clear_shrink(qs[h.recv])]
    IN [q1 EXCEPT ![h.send] = VecDeque_clear_shrink(q1[h.send])]

\* variant of read that passes the Ok(0) of the queue through
ConnectedBuffer_read_ok_zero(qs, h, dlen) ==
    LET r == VecDeque_read(qs[h.recv], dlen)
    IN [queues |-> [qs EXCEPT ![h.recv] = r.q], res |-> "Ok", n |-> r.n, out |-> r.out]

\* variant of read that takes the bytes from the endpoint's send queue
ConnectedBuffer_read_from_send(qs, h, dlen) ==
    LET r == VecDeque_read(qs[h.send], dlen)
    IN IF r.n = 0
       THEN [queues |-> [qs EXCEPT ![h.send] = r.q], res |-> "WouldBlock", n |-> 0, out |-> <<>>]
       ELSE [queues |-> [qs EXCEPT ![h.send] = r.q], res |-> "Ok", n |-> r.n, out |-> r.out]

\* variant of read that reports WouldBlock only for an empty receive queue
ConnectedBuffer_read_block_on_empty(qs, h, dlen) ==
    LET r == VecDeque_read(qs[h.recv], dlen)
    IN IF qs[h.recv].buf = <<>>
       THEN [queues |-> [qs EXCEPT ![h.recv] = r.q], res |-> "WouldBlock", n |-> 0, out |-> <<>>]
       ELSE [queues |-> [qs EXCEPT ![h.recv] = r.q], res |-> "Ok", n |-> r.n, out |-> r.out]

\* <ConnectedBuffer as Read>::read
ConnectedBuffer_read(qs, h, dlen) ==
    LET r == VecDeque_read(qs[h.recv], dlen)
    IN IF r.n = 0
       THEN [queues |-> [qs EXCEPT ![h.recv] = r.q], res |-> "WouldBlock", n |-> 0, out |-> <<>>]
       ELSE [queues |-> [qs EXCEPT ![h.recv] = r.q], res |-> "Ok", n |-> r.n, out |-> r.out]

\* variant of write that appends to the endpoint's own receive queue
ConnectedBuffer_write_to_recv(qs, h, src) ==
    LET r == VecDeque_write(qs[h.recv], src)
    IN [queues |-> [qs EXCEPT ![h.recv] = r.q], res |-> "Ok", n |-> r.n]

\* <ConnectedBuffer as Write>::write
ConnectedBuffer_write(qs, h, src) ==
    LET r == VecDeque_write(qs[h.send], src)
    IN [queues |-> [qs EXCEPT ![h.send] = r.q], res |-> "Ok", n |-> r.n]

\* <ConnectedBuffer as Write>::flush
ConnectedBuffer_flush(qs, h) == [queues |-> qs, res |-> "Ok"]

----------------------------------------------------------------------------
(* The parameter grid (harness.rs:35-88) *)

Sides == {"client", "server"}
HandshakeTypes == {"ServerAuth", "MutualAuth"}
CipherSuites == {"AES_128_GCM_SHA256", "AES_256_GCM_SHA384"}
ECGroups == {"SECP256R1", "X25519"}
SigTypes == {"Rsa2048", "Rsa4096", "Ec384"}
CryptoConfigs == [cipher_suite : CipherSuites, ec_group : ECGroups, sig_type : SigTypes]

\* the #[default] variants
DefaultCryptoConfig ==
    [cipher_suite |-> "AES_128_GCM_SHA256", ec_group |-> "X25519", sig_type |-> "Ec384"]
DefaultHandshakeType == "ServerAuth"

----------------------------------------------------------------------------
(* S2NConnection::make_config (s2n_tls.rs:84-130) *)

\* variant of the policy table that selects 20230317 for both suites on SECP256R1
SecurityPolicy_one_for_both(cipher_suite, ec_group) ==
    CASE cipher_suite = "AES_128_GCM_SHA256" /\ ec_group = "SECP256R1" -> "20230317"
      [] cipher_suite = "AES_256_GCM_SHA384" /\ ec_group = "SECP256R1" -> "20230317"
      [] cipher_suite = "AES_128_GCM_SHA256" /\ ec_group = "X25519" -> "default_tls13"
      [] cipher_suite = "AES_256_GCM_SHA384" /\ ec_group = "X25519" -> "20190801"

SecurityPolicy(cipher_suite, ec_group) ==
    CASE cipher_suite = "AES_128_GCM_SHA256" /\ ec_group = "SECP256R1" -> "20230317"
      [] cipher_suite = "AES_256_GCM_SHA384" /\ ec_group = "SECP256R1" -> "20190802"
      [] cipher_suite = "AES_128_GCM_SHA256" /\ ec_group = "X25519" -> "default_tls13"
      [] cipher_suite = "AES_256_GCM_SHA384" /\ ec_group = "X25519" -> "20190801"

\* variant of make_config that adds the CA certificate for clients only
S2NConnection_make_config_client_trust_only(mode, crypto_config, handshake_type) ==
    [mode |-> mode,
     config |->
       [security_policy |->
            SecurityPolicy(crypto_config.cipher_suite, crypto_config.ec_group),
        client_auth_type |->
            IF handshake_type = "ServerAuth" THEN "None" ELSE "Required",
        trust_pem |->
            IF mode = "Client" THEN <<"CACert", crypto_config.sig_type>> ELSE <<>>,
        verify_host |->
            IF mode = "Client" THEN <<"localhost">> ELSE <<>>,
        load_pem |->
            IF mode = "Server" \/ handshake_type = "MutualAuth"
            THEN IF mode = "Server"
                 THEN <<"ServerCertChain", "ServerKey", crypto_config.sig_type>>
                 ELSE <<"ClientCertChain", "ClientKey", crypto_config.sig_type>>
            ELSE <<>>]]

\* trust_pem / load_pem hold the PEM files read, <<>> when the builder call is skipped
S2NConnection_make_config(mode, crypto_config, handshake_type) ==
    [mode |-> mode,
     config |->
       [security_policy |->
            SecurityPolicy(crypto_config.cipher_suite, crypto_config.ec_group),
        client_auth_type |->
            IF handshake_type = "ServerAuth" THEN "None" ELSE "Required",
        trust_pem |->
            IF handshake_type = "MutualAuth" \/ mode = "Client"
            THEN <<"CACert", crypto_config.sig_type>> ELSE <<>>,
        verify_host |->
            IF handshake_type = "MutualAuth" \/ mode = "Client"
            THEN <<"localhost">> ELSE <<>>,
        load_pem |->
            IF mode = "Server" \/ handshake_type = "MutualAuth"
            THEN IF mode = "Server"
                 THEN <<"ServerCertChain", "ServerKey", crypto_config.sig_type>>
                 ELSE <<"ClientCertChain", "ClientKey", crypto_config.sig_type>>
            ELSE <<>>]]

----------------------------------------------------------------------------
(* The s2n IO callbacks (s2n_tls.rs:55-77). The context is the address of  *)
(* a pinned ConnectedBuffer in the box heap.                               *)

\* send_cb: context.write(data).unwrap()
S2NConnection_send_cb(qs, bx, context, bytes) ==
    LET r == ConnectedBuffer_write(qs, bx[context].h, bytes)
    IN [queues |-> r.queues, rc |-> r.n]

\* variant of recv_cb that reports a WouldBlock of the transport as 0 bytes read
S2NConnection_recv_cb_zero_on_block(qs, bx, context, len) ==
    LET h == bx[context].h
        f == ConnectedBuffer_flush(qs, h)
        r == ConnectedBuffer_read(f.queues, h, len)
    IN [queues |-> r.queues, rc |-> r.n, errno |-> "", out |-> r.out]

\* recv_cb: flush, then read; WouldBlock becomes errno EWOULDBLOCK and -1
S2NConnection_recv_cb(qs, bx, context, len) ==
    LET h == bx[context].h
        f == ConnectedBuffer_flush(qs, h)
        r == ConnectedBuffer_read(f.queues, h, len)
    IN IF r.res = "WouldBlock"
       THEN [queues |-> r.queues, rc |-> -1, errno |-> "EWOULDBLOCK", out |-> <<>>]
       ELSE [queues |-> r.queues, rc |-> r.n, errno |-> "", out |-> r.out]

----------------------------------------------------------------------------
(* The s2n engine (s2n_tls::connection::Connection), which lives outside   *)
(* the bench crate: a TLS 1.3 endpoint that reads and writes whole records *)
(* through the two callbacks.  A record is one header byte (content type   *)
(* and payload length) followed by the payload.                            *)

\* the longest application-data payload of one record (2^14 in TLS), scaled down
MaxFrag == 2

RecType == [handshake |-> 1, appdata |-> 2]
MsgTag == [ClientHello |-> 1, HelloRetry |-> 2, ServerFlight |-> 3, ClientFinished |-> 4]
SuiteCode == [AES_128_GCM_SHA256 |-> 1, AES_256_GCM_SHA384 |-> 2,
              CHACHA20_POLY1305_SHA256 |-> 3, ECDHE_RSA_AES128_GCM_SHA256 |-> 4]
GroupCode == [SECP256R1 |-> 1, X25519 |-> 2]
SigCode == [Rsa2048 |-> 1, Rsa4096 |-> 2, Ec384 |-> 3]

RecHeader(type, len) == type * 10 + len
RecTypeOf(hdr) == hdr \div 10
RecLenOf(hdr) == hdr % 10

\* the curves a security policy accepts, most preferred first
PolicyCurves(policy) ==
    CASE policy = "20230317" -> <<"SECP256R1">>
      [] policy = "20190802" -> <<"SECP256R1">>
      [] policy = "default_tls13" -> <<"X25519", "SECP256R1">>
      [] policy = "20190801" -> <<"X25519", "SECP256R1">>

\* the TLS 1.3 suite a security policy prefers
PolicyCipher(policy) ==
    CASE policy = "20230317" -> "AES_128_GCM_SHA256"
      [] policy = "20190802" -> "AES_256_GCM_SHA384"
      [] policy = "default_tls13" -> "AES_128_GCM_SHA256"
      [] policy = "20190801" -> "AES_256_GCM_SHA384"

InSeq(x, sq) == \E k \in 1..Len(sq) : sq[k] = x

\* the signature type of a loaded PEM (0 when none is loaded)
PemSig(pem) == IF pem = <<>> THEN 0 ELSE SigCode[pem[Len(pem)]]

\* Connection::new(mode) with set_config and the two contexts registered
Connection_new(mode, config, send_ctx, recv_ctx) ==
    [alive |-> TRUE, mode |-> mode, config |-> config,
     send_ctx |-> send_ctx, recv_ctx |-> recv_ctx,
     hs |-> "start", inbuf |-> <<>>, plain |-> <<>>, suite |-> 0, version |-> "TLS13"]

\* the IANA name of a suite code; code 0 is the null suite of a connection
\* that has not negotiated
SuiteName(code) ==
    CASE code = SuiteCode.AES_128_GCM_SHA256 -> "TLS_AES_128_GCM_SHA256"
      [] code = SuiteCode.AES_256_GCM_SHA384 -> "TLS_AES_256_GCM_SHA384"
      [] code = SuiteCode.CHACHA20_POLY1305_SHA256 -> "TLS_CHACHA20_POLY1305_SHA256"
      [] code = SuiteCode.ECDHE_RSA_AES128_GCM_SHA256 -> "ECDHE-RSA-AES128-GCM-SHA256"
      [] OTHER -> "TLS_NULL_WITH_NULL_NULL"

\* Connection::cipher_suite
Connection_cipher_suite(e) == SuiteName(e.suite)

\* Connection::actual_protocol_version
Connection_actual_protocol_version(e) == e.version

\* one record written through the send callback
EngineWriteRecord(qs, bx, e, type, payload) ==
    S2NConnection_send_cb(qs, bx, e.send_ctx, <<RecHeader(type, Len(payload))>> \o payload).queues

RECURSIVE EngineWriteRecords(_, _, _, _, _)
EngineWriteRecords(qs, bx, e, type, payloads) ==
    IF payloads = <<>> THEN qs
    ELSE Bind(EngineWriteRecord(qs, bx, e, type, Head(payloads)),
              LAMBDA q1 : EngineWriteRecords(q1, bx, e, type, Tail(payloads)))

\* one whole record read through the receive callback: the header, then
\* the payload, calling the callback again after a short read and keeping
\* what was read in inbuf when the callback reports EWOULDBLOCK
RECURSIVE EngineReadRecord(_, _, _)
EngineReadRecord(qs, bx, e) ==
    LET need == IF e.inbuf = <<>> THEN 1
                ELSE 1 + RecLenOf(e.inbuf[1]) - Len(e.inbuf)
    IN IF need = 0
       THEN [queues |-> qs, e |-> [e EXCEPT !.inbuf = <<>>], blocked |-> FALSE, rec |-> e.inbuf]
       ELSE Bind(S2NConnection_recv_cb(qs, bx, e.recv_ctx, need), LAMBDA r :
                IF r.rc = -1
                THEN [queues |-> r.queues, e |-> e, blocked |-> TRUE, rec |-> <<>>]
                ELSE Bind([e EXCEPT !.inbuf = e.inbuf \o r.out], LAMBDA e1 :
                         EngineReadRecord(r.queues, bx, e1)))

\* the handshake state machine on one received record:
\* the next engine state and the handshake messages to send
EngineProcess(e, rec) ==
    LET msg == Tail(rec)
        fail == [e |-> [e EXCEPT !.hs = "failed"], send |-> <<>>]
        policy == e.config.security_policy
    IN IF RecTypeOf(rec[1]) # RecType.handshake \/ msg = <<>> THEN fail
       ELSE IF e.mode = "Client" /\ e.hs = "wait_server" /\ msg[1] = MsgTag.HelloRetry
       THEN [e |-> e, send |-> << <<MsgTag.ClientHello, msg[2]>> >>]
       ELSE IF e.mode = "Client" /\ e.hs = "wait_server" /\ msg[1] = MsgTag.ServerFlight
       THEN LET trusted == e.config.trust_pem # <<>> /\ PemSig(e.config.trust_pem) = msg[3]
                requested == msg[4] = 1
                auth_ok == requested <=> (e.config.client_auth_type = "Required")
            IN IF trusted /\ auth_ok
               THEN [e |-> [e EXCEPT !.hs = "done", !.suite = msg[2]],
                     send |-> << <<MsgTag.ClientFinished,
                                   IF requested THEN PemSig(e.config.load_pem) ELSE 0>> >>]
               ELSE fail
       ELSE IF e.mode = "Server" /\ e.hs = "start" /\ msg[1] = MsgTag.ClientHello
       THEN IF \E g \in DOMAIN GroupCode : GroupCode[g] = msg[2] /\ InSeq(g, PolicyCurves(policy))
            THEN [e |-> [e EXCEPT !.hs = "wait_finished",
                                  !.suite = SuiteCode[PolicyCipher(policy)]],
                  send |-> << <<MsgTag.ServerFlight, SuiteCode[PolicyCipher(policy)],
                                PemSig(e.config.load_pem),
                                IF e.config.client_auth_type = "Required" THEN 1 ELSE 0>> >>]
            ELSE [e |-> e, send |-> << <<MsgTag.HelloRetry, GroupCode[PolicyCurves(policy)[1]]>> >>]
       ELSE IF e.mode = "Server" /\ e.hs = "wait_finished" /\ msg[1] = MsgTag.ClientFinished
       THEN IF e.config.client_auth_type = "Required"
               /\ ~(e.config.trust_pem # <<>> /\ PemSig(e.config.trust_pem) = msg[2])
            THEN fail
            ELSE [e |-> [e EXCEPT !.hs = "done"], send |-> <<>>]
       ELSE fail

\* s2n_negotiate: run the state machine until it is done, fails, or the
\* receive callback reports EWOULDBLOCK
RECURSIVE EngineNegotiate(_, _, _)
EngineNegotiate(qs, bx, e) ==
    IF e.hs = "done" THEN [queues |-> qs, e |-> e, poll |-> "ReadyOk"]
    ELSE IF e.hs = "failed" THEN [queues |-> qs, e |-> e, poll |-> "ReadyErr"]
    ELSE IF e.mode = "Client" /\ e.hs = "start"
    THEN Bind(EngineWriteRecord(qs, bx, e, RecType.handshake,
                  <<MsgTag.ClientHello, GroupCode[PolicyCurves(e.config.security_policy)[1]]>>),
              LAMBDA q1 : Bind([e EXCEPT !.hs = "wait_server"], LAMBDA e1 :
                  EngineNegotiate(q1, bx, e1)))
    ELSE Bind(EngineReadRecord(qs, bx, e), LAMBDA r :
             IF r.blocked THEN [queues |-> r.queues, e |-> r.e, poll |-> "Pending"]
             ELSE Bind(EngineProcess(r.e, r.rec), LAMBDA p :
                      Bind(EngineWriteRecords(r.queues, bx, p.e, RecType.handshake, p.send),
                           LAMBDA q1 : EngineNegotiate(q1, bx, p.e))))

\* Connection::poll_negotiate
Connection_poll_negotiate(qs, bx, e) == EngineNegotiate(qs, bx, e)

\* record protection under the negotiated suite, bytewise
Encrypt(bytes, key) == [k \in 1..Len(bytes) |-> (bytes[k] + key) % 256]
Decrypt(bytes, key) == [k \in 1..Len(bytes) |-> (bytes[k] + 256 - key) % 256]

\* the plaintext of one send call, cut into record payloads
RECURSIVE Fragments(_)
Fragments(bytes) ==
    IF Len(bytes) <= MaxFrag THEN <<bytes>>
    ELSE <<SubSeq(bytes, 1, MaxFrag)>> \o Fragments(SubSeq(bytes, MaxFrag + 1, Len(bytes)))

\* Connection::poll_send on an established connection: every fragment is
\* protected and handed to the send callback, which never blocks
Connection_poll_send(qs, bx, e, bytes) ==
    Bind(Fragments(bytes), LAMBDA fr :
        Bind([k \in 1..Len(fr) |-> Encrypt(fr[k], e.suite)], LAMBDA recs :
            [queues |-> EngineWriteRecords(qs, bx, e, RecType.appdata, recs),
             e |-> e, poll |-> "ReadyOk", n |-> Len(bytes)]))

\* Connection::poll_flush: nothing stays buffered behind a callback that never blocks
Connection_poll_flush(qs, bx, e) == [queues |-> qs, e |-> e, poll |-> "ReadyOk"]

\* Connection::poll_recv (s2n_recv): returns what is left of the current
\* record, else reads one record and returns as much of it as fits;
\* it never waits for a second record
Connection_poll_recv(qs, bx, e, len) ==
    IF e.plain # <<>>
    THEN LET n == Min(len, Len(e.plain))
         IN [queues |-> qs, e |-> [e EXCEPT !.plain = SubSeq(e.plain, n + 1, Len(e.plain))],
             poll |-> "ReadyOk", n |-> n, out |-> SubSeq(e.plain, 1, n)]
    ELSE Bind(EngineReadRecord(qs, bx, e), LAMBDA r :
             IF r.blocked
             THEN [queues |-> r.queues, e |-> r.e, poll |-> "Pending", n |-> 0, out |-> <<>>]
             ELSE IF RecTypeOf(r.rec[1]) # RecType.appdata
             THEN [queues |-> r.queues, e |-> r.e, poll |-> "ReadyErr", n |-> 0, out |-> <<>>]
             ELSE Bind(Decrypt(Tail(r.rec), e.suite), LAMBDA pt :
                      [queues |-> r.queues,
                       e |-> [r.e EXCEPT !.plain = SubSeq(pt, Min(len, Len(pt)) + 1, Len(pt))],
                       poll |-> "ReadyOk", n |-> Min(len, Len(pt)),
                       out |-> SubSeq(pt, 1, Min(len, Len(pt)))]))

\* Connection::release_buffers: refused while input is still unprocessed
Connection_release_buffers(e) ==
    IF e.plain # <<>> \/ e.inbuf # <<>> THEN "Err" ELSE "Ok"

----------------------------------------------------------------------------
(* S2NConnection (s2n_tls.rs:31-37, 133-217).  A world w is the part of    *)
(* the state the operations work on: [queues, box, conn].                  *)

World(qs, bx, cn) == [queues |-> qs, box |-> bx, conn |-> cn]

\* the fields of the struct, in declaration order
S2NConnection_fields == <<"connected_buffer", "connection", "handshake_completed">>

\* new_from_config: Box::pin the endpoint, create the engine, register the
\* callbacks and the address of the pinned endpoint as both contexts
S2NConnection_new_from_config(w, s, config, connected_buffer) ==
    LET addr == Len(w.box) + 1
        bx == Append(w.box, [state |-> "live", h |-> connected_buffer])
    IN World(w.queues, bx,
             [w.conn EXCEPT ![s] =
                 [state |-> "live",
                  connected_buffer |-> addr,
                  connection |-> Connection_new(config.mode, config.config, addr, addr),
                  handshake_completed |-> FALSE]])

\* TlsConnection::new (harness.rs:116-126)
S2NConnection_new(w, s, mode, crypto_config, handshake_type, buffer) ==
    S2NConnection_new_from_config(
        w, s, S2NConnection_make_config(mode, crypto_config, handshake_type), buffer)

\* variant of handshake that records completion only in the step that
\* finishes the negotiation
S2NConnection_handshake_first_completion(w, s) ==
    Bind(Connection_poll_negotiate(w.queues, w.box, w.conn[s].connection), LAMBDA r :
        IF r.poll = "ReadyErr"
        THEN [w |-> World(r.queues, w.box, [w.conn EXCEPT ![s].connection = r.e]),
              out |-> "panic", engineErr |-> TRUE]
        ELSE [w |-> World(r.queues, w.box,
                          [w.conn EXCEPT ![s].connection = r.e,
                                         ![s].handshake_completed =
                                             (r.poll = "ReadyOk"
                                              /\ w.conn[s].connection.hs # "done")]),
              out |-> "Ok", engineErr |-> FALSE])

\* variant of handshake that records completion whenever the poll returns
S2NConnection_handshake_always_done(w, s) ==
    Bind(Connection_poll_negotiate(w.queues, w.box, w.conn[s].connection), LAMBDA r :
        [w |-> World(r.queues, w.box,
                     [w.conn EXCEPT ![s].connection = r.e, ![s].handshake_completed = TRUE]),
         out |-> "Ok", engineErr |-> FALSE])

\* handshake: one poll_negotiate; an engine error is unwrapped inside map
S2NConnection_handshake(w, s) ==
    Bind(Connection_poll_negotiate(w.queues, w.box, w.conn[s].connection), LAMBDA r :
        IF r.poll = "ReadyErr"
        THEN [w |-> World(r.queues, w.box, [w.conn EXCEPT ![s].connection = r.e]),
              out |-> "panic", engineErr |-> TRUE]
        ELSE [w |-> World(r.queues, w.box,
                          [w.conn EXCEPT ![s].connection = r.e,
                                         ![s].handshake_completed = (r.poll = "ReadyOk")]),
              out |-> "Ok", engineErr |-> FALSE])

S2NConnection_handshake_completed(w, s) == w.conn[s].handshake_completed

\* variant of get_negotiated_cipher_suite whose last arm reports
\* AES_128_GCM_SHA256 for every other name
S2NConnection_get_negotiated_cipher_suite_default_arm(w, s) ==
    LET name == Connection_cipher_suite(w.conn[s].connection)
    IN CASE name = "TLS_AES_256_GCM_SHA384" -> [out |-> "Ok", val |-> "AES_256_GCM_SHA384"]
         [] OTHER -> [out |-> "Ok", val |-> "AES_128_GCM_SHA256"]

\* get_negotiated_cipher_suite: the match on the engine's suite name
S2NConnection_get_negotiated_cipher_suite(w, s) ==
    LET name == Connection_cipher_suite(w.conn[s].connection)
    IN CASE name = "TLS_AES_128_GCM_SHA256" -> [out |-> "Ok", val |-> "AES_128_GCM_SHA256"]
         [] name = "TLS_AES_256_GCM_SHA384" -> [out |-> "Ok", val |-> "AES_256_GCM_SHA384"]
         [] OTHER -> [out |-> "panic", val |-> "none"]

\* negotiated_tls13: actual_protocol_version().unwrap() == Version::TLS13
S2NConnection_negotiated_tls13(w, s) ==
    Connection_actual_protocol_version(w.conn[s].connection) = "TLS13"

\* variant of send that hands only the first byte of data to the engine
S2NConnection_send_first_byte(w, s, bytes) ==
    Bind(Connection_poll_send(w.queues, w.box, w.conn[s].connection, SubSeq(bytes, 1, 1)),
         LAMBDA r : [w |-> World(r.queues, w.box, [w.conn EXCEPT ![s].connection = r.e]),
                     out |-> "Ok"])

\* send: assert!(poll_send.is_ready()); assert!(poll_flush.is_ready()); Ok(())
S2NConnection_send(w, s, bytes) ==
    Bind(Connection_poll_send(w.queues, w.box, w.conn[s].connection, bytes), LAMBDA r :
        IF r.poll = "Pending"
        THEN [w |-> World(r.queues, w.box, [w.conn EXCEPT ![s].connection = r.e]), out |-> "panic"]
        ELSE Bind(Connection_poll_flush(r.queues, w.box, r.e), LAMBDA f :
                 [w |-> World(f.queues, w.box, [w.conn EXCEPT ![s].connection = f.e]),
                  out |-> IF f.poll = "Pending" THEN "panic" ELSE "Ok"]))

\* recv: assert!(poll_recv(data).is_ready()); Ok(()) - one poll, the count is dropped
S2NConnection_recv(w, s, buf) ==
    Bind(Connection_poll_recv(w.queues, w.box, w.conn[s].connection, Len(buf)), LAMBDA r :
        [w |-> World(r.queues, w.box, [w.conn EXCEPT ![s].connection = r.e]),
         out |-> IF r.poll = "Pending" THEN "panic" ELSE "Ok",
         buf |-> IF r.poll = "Pending" THEN buf ELSE r.out \o SubSeq(buf, r.n + 1, Len(buf))])

\* shrink_connection_buffers: release_buffers().unwrap()
S2NConnection_shrink_connection_buffers(w, s) ==
    [w |-> w,
     out |-> IF Connection_release_buffers(w.conn[s].connection) = "Ok" THEN "Ok" ELSE "panic"]

\* variant of shrink_connected_buffer that replaces the pinned endpoint by a
\* freshly pinned, shrunk one
S2NConnection_shrink_connected_buffer_repin(w, s) ==
    LET old == w.conn[s].connected_buffer
        bx == Append([w.box EXCEPT ![old].state = "freed"], [state |-> "live", h |-> w.box[old].h])
    IN World(ConnectedBuffer_shrink(w.queues, w.box[old].h), bx,
             [w.conn EXCEPT ![s].connected_buffer = Len(bx)])

\* shrink_connected_buffer: shrinks the pinned endpoint in place
S2NConnection_shrink_connected_buffer(w, s) ==
    World(ConnectedBuffer_shrink(w.queues, w.box[w.conn[s].connected_buffer].h), w.box, w.conn)

\* clone_connected_buffer
S2NConnection_clone_connected_buffer(w, s) == w.box[w.conn[s].connected_buffer].h

\* drop glue: the fields are dropped in declaration order; dropping the
\* Pin<Box> frees the pinned endpoint, dropping the Connection destroys the engine
RECURSIVE S2NConnection_drop_fields(_, _, _, _)
S2NConnection_drop_fields(w, log, s, fields) ==
    IF fields = <<>> THEN [w |-> World(w.queues, w.box, [w.conn EXCEPT ![s].state = "dropped"]),
                           log |-> log]
    ELSE LET f == Head(fields)
             c == w.conn[s]
             w1 == IF f = "connected_buffer"
                   THEN World(w.queues, [w.box EXCEPT ![c.connected_buffer].state = "freed"], w.conn)
                   ELSE IF f = "connection"
                   THEN World(w.queues, w.box, [w.conn EXCEPT ![s].connection.alive = FALSE])
                   ELSE w
         IN Bind(w1, LAMBDA w2 : Bind(Append(log, [side |-> s, field |-> f]), LAMBDA log2 :
                S2NConnection_drop_fields(w2, log2, s, Tail(fields))))

S2NConnection_drop(w, log, s) == S2NConnection_drop_fields(w, log, s, S2NConnection_fields)

----------------------------------------------------------------------------
(* TlsConnPair (harness.rs:153-250) *)

\* variant of new that gives the client connected_buffer.clone() itself
TlsConnPair_new_same_view(w, crypto_config, handshake_type, connected_buffer) ==
    Bind(S2NConnection_new(w, "client", "Client", crypto_config, handshake_type,
                           connected_buffer),
         LAMBDA w1 : S2NConnection_new(w1, "server", "Server", crypto_config,
                                       handshake_type, connected_buffer))

\* new: the client over connected_buffer.clone().inverse(), then the server
\* over connected_buffer
TlsConnPair_new(w, crypto_config, handshake_type, connected_buffer) ==
    Bind(S2NConnection_new(w, "client", "Client", crypto_config, handshake_type,
                           ConnectedBuffer_inverse(connected_buffer)),
         LAMBDA w1 : S2NConnection_new(w1, "server", "Server", crypto_config,
                                       handshake_type, connected_buffer))

\* variant of wrap that compares the handles by the content of their queues
TlsConnPair_wrap_by_content(w) ==
    LET c == S2NConnection_clone_connected_buffer(w, "client")
        sv == ConnectedBuffer_inverse(S2NConnection_clone_connected_buffer(w, "server"))
    IN IF w.queues[c.recv].buf = w.queues[sv.recv].buf /\ w.queues[c.send].buf = w.queues[sv.send].buf
       THEN "Ok" ELSE "panic"

\* wrap: the assertion on the two handles
TlsConnPair_wrap(w) ==
    IF ConnectedBuffer_eq(S2NConnection_clone_connected_buffer(w, "client"),
                          ConnectedBuffer_inverse(S2NConnection_clone_connected_buffer(w, "server")))
    THEN "Ok" ELSE "panic"

\* the rounds of handshake: client step ?, server step ?
RECURSIVE TlsConnPair_handshake_rounds(_, _)
TlsConnPair_handshake_rounds(w, k) ==
    IF k = 0 THEN [w |-> w, out |-> "Ok", engineErr |-> FALSE]
    ELSE Bind(S2NConnection_handshake(w, "client"), LAMBDA c :
             IF c.out # "Ok" THEN c
             ELSE Bind(S2NConnection_handshake(c.w, "server"), LAMBDA sv :
                      IF sv.out # "Ok" THEN sv
                      ELSE TlsConnPair_handshake_rounds(sv.w, k - 1)))

\* variant of handshake with a single round
TlsConnPair_handshake_one_round(w) == TlsConnPair_handshake_rounds(w, 1)

\* handshake: for _ in 0..2 { ... } Ok(())
TlsConnPair_handshake(w) == TlsConnPair_handshake_rounds(w, 2)

TlsConnPair_handshake_completed(w) ==
    S2NConnection_handshake_completed(w, "client") /\ S2NConnection_handshake_completed(w, "server")

\* get_negotiated_cipher_suite: assert completed, assert both sides equal,
\* then the client's suite
TlsConnPair_get_negotiated_cipher_suite(w) ==
    IF ~TlsConnPair_handshake_completed(w) THEN [out |-> "panic", val |-> "none"]
    ELSE LET c == S2NConnection_get_negotiated_cipher_suite(w, "client")
             sv == S2NConnection_get_negotiated_cipher_suite(w, "server")
         IN IF c.out = "panic" \/ sv.out = "panic" \/ c.val # sv.val
            THEN [out |-> "panic", val |-> "none"]
            ELSE c

\* negotiated_tls13: client && server
TlsConnPair_negotiated_tls13(w) ==
    [out |-> "Ok",
     val |-> S2NConnection_negotiated_tls13(w, "client")
             /\ S2NConnection_negotiated_tls13(w, "server")]

\* round_trip_transfer: client.send?, server.recv?, server.send?, client.recv?
TlsConnPair_round_trip_transfer(w, buf) ==
    Bind(S2NConnection_send(w, "client", buf), LAMBDA a :
        IF a.out # "Ok" THEN [w |-> a.w, out |-> a.out, buf |-> buf]
        ELSE Bind(S2NConnection_recv(a.w, "server", buf), LAMBDA b :
                 IF b.out # "Ok" THEN b
                 ELSE Bind(S2NConnection_send(b.w, "server", b.buf), LAMBDA c :
                          IF c.out # "Ok" THEN [w |-> c.w, out |-> c.out, buf |-> b.buf]
                          ELSE S2NConnection_recv(c.w, "client", b.buf))))

\* shrink_connection_buffers: client, then server
TlsConnPair_shrink_connection_buffers(w) ==
    Bind(S2NConnection_shrink_connection_buffers(w, "client"), LAMBDA c :
        IF c.out # "Ok" THEN c ELSE S2NConnection_shrink_connection_buffers(c.w, "server"))

\* shrink_connected_buffers: client, then server
TlsConnPair_shrink_connected_buffers(w) ==
    Bind(S2NConnection_shrink_connected_buffer(w, "client"), LAMBDA w1 :
        S2NConnection_shrink_connected_buffer(w1, "server"))

\* drop glue of the pair: client, then server (declaration order)
TlsConnPair_drop(w, log) ==
    Bind(S2NConnection_drop(w, log, "client"), LAMBDA c :
        S2NConnection_drop(c.w, c.log, "server"))

----------------------------------------------------------------------------
(* Values of the variables a specification does not use *)

NoBox == <<>>
NoConn == [client |-> [state |-> "none"], server |-> [state |-> "none"]]
NoPair == [state |-> "none", built |-> "none", kind |-> "none", nhs |-> 0]
NoOp == [name |-> "none", out |-> "none", engineErr |-> FALSE]
NoData == [before |-> <<>>, after |-> <<>>, trips |-> 0]
NoLog == [written |-> <<<<>>, <<>>>>, read |-> <<<<>>, <<>>>>, shrunk |-> FALSE]
NoBench == [pc |-> "none"]
NoRet == [op |-> "none", i |-> 0, dlen |-> 0, res |-> "none", n |-> 0, out |-> <<>>]

----------------------------------------------------------------------------
(* SpecBuf: a driver holding two handles of one transport, made as        *)
(* TlsConnPair::new makes them (harness.rs:188-194): the creator's view   *)
(* and connected_buffer.clone().inverse()                                 *)

Slots == {1, 2}

InitBuf ==
    LET c == ConnectedBuffer_new(<<>>)
    IN /\ queues = c.queues
       /\ hs = <<c.h, ConnectedBuffer_inverse(c.h)>>
       /\ ret = [NoRet EXCEPT !.op = "new"]
       /\ box = NoBox
       /\ conn = NoConn
       /\ pair = NoPair
       /\ op = NoOp
       /\ data = NoData
       /\ dropLog = <<>>
       /\ pipeLog = NoLog
       /\ bench = NoBench

PairVarsUnchanged == UNCHANGED <<box, conn, pair, op, data, dropLog, pipeLog, bench>>

\* handle.read(&mut dest) with dest.len() = dlen
BufRead(i, dlen) ==
    LET r == ConnectedBuffer_read(queues, hs[i], dlen)
    IN /\ queues' = r.queues
       /\ ret' = [NoRet EXCEPT !.op = "read", !.i = i, !.dlen = dlen,
                               !.res = r.res, !.n = r.n, !.out = r.out]
       /\ UNCHANGED hs
       /\ PairVarsUnchanged

\* handle.write(src)
BufWrite(i, src) ==
    LET r == ConnectedBuffer_write(queues, hs[i], src)
    IN /\ Len(queues[hs[i].send].buf) + Len(src) <= MaxQueue
       /\ queues' = r.queues
       /\ ret' = [NoRet EXCEPT !.op = "write", !.i = i, !.res = r.res, !.n = r.n]
       /\ UNCHANGED hs
       /\ PairVarsUnchanged

\* handle.flush()
BufFlush(i) ==
    LET r == ConnectedBuffer_flush(queues, hs[i])
    IN /\ queues' = r.queues
       /\ ret' = [NoRet EXCEPT !.op = "flush", !.i = i, !.res = r.res]
       /\ UNCHANGED hs
       /\ PairVarsUnchanged

\* handle.shrink()
BufShrink(i) ==
    /\ queues' = ConnectedBuffer_shrink(queues, hs[i])
    /\ ret' = [NoRet EXCEPT !.op = "shrink", !.i = i]
    /\ UNCHANGED hs
    /\ PairVarsUnchanged

\* handle = handle.inverse(), on the derived handle
BufInverse(i) ==
    /\ hs' = [hs EXCEPT ![i] = ConnectedBuffer_inverse(hs[i])]
    /\ ret' = [NoRet EXCEPT !.op = "inverse", !.i = i]
    /\ UNCHANGED queues
    /\ PairVarsUnchanged

NextBuf ==
    \/ \E i \in Slots, dlen \in 0..MaxLen : BufRead(i, dlen)
    \/ \E i \in Slots, src \in SeqsUpTo(Byte, MaxLen) : BufWrite(i, src)
    \/ \E i \in Slots : BufFlush(i)
    \/ \E i \in Slots : BufShrink(i)
    \/ BufInverse(2)

SpecBuf == InitBuf /\ [][NextBuf]_vars

----------------------------------------------------------------------------
(* SpecPipe: the two endpoints of one transport, the creator's view and    *)
(* its inverse, reading and writing in any interleaving and then shrunk    *)
(* any number of times; pipeLog keeps what each endpoint has written and   *)
(* what its reads have returned.                                           *)

\* the number of bytes one endpoint writes in a run of SpecPipe
MaxWritten == 3

\* the other endpoint of the transport
Peer(i) == 3 - i

PipeUnchanged == UNCHANGED <<hs, box, conn, pair, op, data, dropLog, bench>>

\* endpoint i: write(src)
PipeWrite(i, src) ==
    /\ ~pipeLog.shrunk
    /\ Len(pipeLog.written[i]) + Len(src) <= MaxWritten
    /\ \E r \in {ConnectedBuffer_write(queues, hs[i], src)} :
       /\ queues' = r.queues
       /\ ret' = [NoRet EXCEPT !.op = "write", !.i = i, !.res = r.res, !.n = r.n]
       /\ pipeLog' = [pipeLog EXCEPT !.written[i] = @ \o SubSeq(src, 1, r.n)]
    /\ PipeUnchanged

\* endpoint i: read(&mut dest) with dest.len() = dlen
PipeRead(i, dlen) ==
    /\ ~pipeLog.shrunk
    /\ \E r \in {ConnectedBuffer_read(queues, hs[i], dlen)} :
       /\ queues' = r.queues
       /\ ret' = [NoRet EXCEPT !.op = "read", !.i = i, !.dlen = dlen,
                               !.res = r.res, !.n = r.n, !.out = r.out]
       /\ pipeLog' = [pipeLog EXCEPT !.read[i] = @ \o r.out]
    /\ PipeUnchanged

\* endpoint i: flush()
PipeFlush(i) ==
    /\ ~pipeLog.shrunk
    /\ \E r \in {ConnectedBuffer_flush(queues, hs[i])} :
       /\ queues' = r.queues
       /\ ret' = [NoRet EXCEPT !.op = "flush", !.i = i, !.res = r.res]
    /\ UNCHANGED pipeLog
    /\ PipeUnchanged

\* endpoint i: shrink()
PipeShrink(i) ==
    /\ queues' = ConnectedBuffer_shrink(queues, hs[i])
    /\ ret' = [NoRet EXCEPT !.op = "shrink", !.i = i]
    /\ pipeLog' = [pipeLog EXCEPT !.shrunk = TRUE]
    /\ PipeUnchanged

NextPipe ==
    \/ \E i \in Slots, src \in SeqsUpTo(Byte, MaxLen) : PipeWrite(i, src)
    \/ \E i \in Slots, dlen \in 0..MaxLen : PipeRead(i, dlen)
    \/ \E i \in Slots : PipeFlush(i)
    \/ \E i \in Slots : PipeShrink(i)

SpecPipe == InitBuf /\ [][NextPipe]_vars

----------------------------------------------------------------------------
(* Spec: a TlsConnPair is built by new or by wrap, then handshaked,       *)
(* shrunk and dropped.                                                     *)

Init ==
    /\ queues = <<>>
    /\ hs = <<>>
    /\ ret = NoRet
    /\ box = NoBox
    /\ conn = NoConn
    /\ pair = NoPair
    /\ op = NoOp
    /\ data = NoData
    /\ dropLog = <<>>
    /\ pipeLog = NoLog
    /\ bench = NoBench

BufVarsUnchanged == UNCHANGED <<hs, ret, pipeLog, bench>>

\* TlsConnPair::new(crypto_config, handshake_type, Default::default())
New(crypto_config, handshake_type) ==
    /\ pair.state = "none"
    /\ \E w \in {Bind(ConnectedBuffer_new(queues), LAMBDA b :
                  TlsConnPair_new(World(b.queues, box, conn), crypto_config, handshake_type, b.h))} :
       /\ queues' = w.queues
       /\ box' = w.box
       /\ conn' = w.conn
       /\ pair' = [state |-> "ready", built |-> "new", kind |-> "inverse", nhs |-> 0]
       /\ op' = [name |-> "new", out |-> "Ok", engineErr |-> FALSE]
       /\ UNCHANGED <<data, dropLog>>
       /\ BufVarsUnchanged

\* the ways a caller of wrap can come by the server's endpoint
WrapKinds == {"inverse", "same", "independent"}

\* the client over a fresh transport, the server over the inverse of the
\* client's endpoint (memory.rs:91-110), over a clone of it, or over a
\* second fresh transport; then TlsConnPair::wrap(client, server)
Wrap(client_config, server_config, handshake_type, kind) ==
    /\ pair.state = "none"
    /\ client_config.cipher_suite = server_config.cipher_suite
    /\ \E w1 \in {Bind(ConnectedBuffer_new(queues), LAMBDA b :
                    S2NConnection_new(World(b.queues, box, conn), "client", "Client",
                                      client_config, handshake_type, b.h))} :
       \E ch \in {S2NConnection_clone_connected_buffer(w1, "client")} :
       \E sb \in {IF kind = "inverse"
                  THEN [queues |-> w1.queues, h |-> ConnectedBuffer_inverse(ch)]
                  ELSE IF kind = "same" THEN [queues |-> w1.queues, h |-> ch]
                  ELSE ConnectedBuffer_new(w1.queues)} :
       \E w2 \in {S2NConnection_new(World(sb.queues, w1.box, w1.conn), "server", "Server",
                                    server_config, handshake_type, sb.h)} :
       \E r \in {TlsConnPair_wrap(w2)} :
       /\ queues' = w2.queues
       /\ box' = w2.box
       /\ conn' = w2.conn
       /\ pair' = [state |-> IF r = "Ok" THEN "ready" ELSE "panicked",
                   built |-> "wrap", kind |-> kind, nhs |-> 0]
       /\ op' = [name |-> "wrap", out |-> r, engineErr |-> FALSE]
       /\ UNCHANGED <<data, dropLog>>
       /\ BufVarsUnchanged

\* pair.handshake()
Handshake ==
    /\ pair.state = "ready"
    /\ \E r \in {TlsConnPair_handshake(World(queues, box, conn))} :
       /\ queues' = r.w.queues
       /\ box' = r.w.box
       /\ conn' = r.w.conn
       /\ pair' = [pair EXCEPT !.state = IF r.out = "panic" THEN "panicked" ELSE "ready",
                               !.nhs = Min(pair.nhs + 1, 2)]
       /\ op' = [name |-> "handshake", out |-> r.out, engineErr |-> r.engineErr]
       /\ UNCHANGED <<data, dropLog>>
       /\ BufVarsUnchanged

\* pair.shrink_connection_buffers()
ShrinkConnectionBuffers ==
    /\ pair.state = "ready"
    /\ \E r \in {TlsConnPair_shrink_connection_buffers(World(queues, box, conn))} :
       /\ queues' = r.w.queues
       /\ box' = r.w.box
       /\ conn' = r.w.conn
       /\ pair' = [pair EXCEPT !.state = IF r.out = "panic" THEN "panicked" ELSE "ready"]
       /\ op' = [name |-> "shrink_connection_buffers", out |-> r.out, engineErr |-> FALSE]
       /\ UNCHANGED <<data, dropLog>>
       /\ BufVarsUnchanged

\* pair.shrink_connected_buffers()
ShrinkConnectedBuffers ==
    /\ pair.state = "ready"
    /\ \E w \in {TlsConnPair_shrink_connected_buffers(World(queues, box, conn))} :
       /\ queues' = w.queues
       /\ box' = w.box
       /\ conn' = w.conn
       /\ op' = [name |-> "shrink_connected_buffers", out |-> "Ok", engineErr |-> FALSE]
       /\ UNCHANGED <<pair, data, dropLog>>
       /\ BufVarsUnchanged

\* pair.round_trip_transfer(&mut buf), on a pair whose handshake is complete
RoundTrip(buf) ==
    /\ pair.state = "ready"
    /\ TlsConnPair_handshake_completed(World(queues, box, conn))
    /\ data.trips < MaxTrips
    /\ \E r \in {TlsConnPair_round_trip_transfer(World(queues, box, conn), buf)} :
       /\ queues' = r.w.queues
       /\ box' = r.w.box
       /\ conn' = r.w.conn
       /\ pair' = [pair EXCEPT !.state = IF r.out = "panic" THEN "panicked" ELSE "ready"]
       /\ op' = [name |-> "round_trip_transfer", out |-> r.out, engineErr |-> FALSE]
       /\ data' = [before |-> buf, after |-> r.buf, trips |-> data.trips + 1]
       /\ UNCHANGED dropLog
       /\ BufVarsUnchanged

\* pair.get_negotiated_cipher_suite(), at any time or only once the
\* handshake has completed
GetNegotiatedCipherSuite(any_time) ==
    /\ pair.state = "ready"
    /\ any_time \/ TlsConnPair_handshake_completed(World(queues, box, conn))
    /\ \E r \in {TlsConnPair_get_negotiated_cipher_suite(World(queues, box, conn))} :
       /\ pair' = [pair EXCEPT !.state = IF r.out = "panic" THEN "panicked" ELSE "ready"]
       /\ op' = [name |-> "get_negotiated_cipher_suite", out |-> r.out,
                 engineErr |-> FALSE, val |-> r.val]
       /\ UNCHANGED <<queues, box, conn, data, dropLog>>
       /\ BufVarsUnchanged

\* pair.negotiated_tls13(), at any time or only once the handshake has completed
NegotiatedTls13(any_time) ==
    /\ pair.state = "ready"
    /\ any_time \/ TlsConnPair_handshake_completed(World(queues, box, conn))
    /\ \E r \in {TlsConnPair_negotiated_tls13(World(queues, box, conn))} :
       /\ op' = [name |-> "negotiated_tls13", out |-> r.out,
                 engineErr |-> FALSE, val |-> r.val]
       /\ UNCHANGED <<queues, box, conn, pair, data, dropLog>>
       /\ BufVarsUnchanged

\* the pair goes out of scope
Drop ==
    /\ pair.state = "ready"
    /\ \E r \in {TlsConnPair_drop(World(queues, box, conn), dropLog)} :
       /\ queues' = r.w.queues
       /\ box' = r.w.box
       /\ conn' = r.w.conn
       /\ dropLog' = r.log
       /\ pair' = [pair EXCEPT !.state = "dropped"]
       /\ op' = [name |-> "drop", out |-> "Ok", engineErr |-> FALSE]
       /\ UNCHANGED data
       /\ BufVarsUnchanged

Next ==
    \/ \E cc \in CryptoConfigs, ht \in HandshakeTypes : New(cc, ht)
    \/ \E c1 \in CryptoConfigs, c2 \in CryptoConfigs, ht \in HandshakeTypes, k \in WrapKinds :
           Wrap(c1, c2, ht, k)
    \/ Handshake
    \/ ShrinkConnectionBuffers
    \/ ShrinkConnectedBuffers
    \/ Drop
    \/ GetNegotiatedCipherSuite(FALSE)
    \/ NegotiatedTls13(FALSE)

Spec == Init /\ [][Next]_vars

----------------------------------------------------------------------------
(* SpecXfer: TlsConnPair::default(), then handshakes, round trips,        *)
(* shrinks and the drop.                                                   *)

InitXfer ==
    \E w \in {Bind(ConnectedBuffer_new(<<>>), LAMBDA b :
                 TlsConnPair_new(World(b.queues, NoBox, NoConn),
                                 DefaultCryptoConfig, DefaultHandshakeType, b.h))} :
       /\ queues = w.queues
       /\ box = w.box
       /\ conn = w.conn
       /\ pair = [state |-> "ready", built |-> "new", kind |-> "inverse", nhs |-> 0]
       /\ op = [name |-> "new", out |-> "Ok", engineErr |-> FALSE]
       /\ data = NoData
       /\ dropLog = <<>>
       /\ pipeLog = NoLog
       /\ bench = NoBench
       /\ hs = <<>>
       /\ ret = NoRet

XferBuffers == SeqsUpTo(Byte, XferMaxLen) \ {<<>>}

NextXfer ==
    \/ Handshake
    \/ \E buf \in XferBuffers : RoundTrip(buf)
    \/ ShrinkConnectionBuffers
    \/ ShrinkConnectedBuffers
    \/ Drop

SpecXfer == InitXfer /\ [][NextXfer]_vars

----------------------------------------------------------------------------
(* SpecConn: the two connections of TlsConnPair::new, driven one           *)
(* TlsConnection call at a time: handshake steps in any order, then send   *)
(* and recv on established connections, the client sending and the server *)
(* receiving.                                                              *)

\* the most plaintext the SpecConn driver leaves unread in one direction
MaxPending == 3

Other(s) == IF s = "client" THEN "server" ELSE "client"

\* the plaintext bytes carried by the application-data records in a byte queue
RECURSIVE WirePlainLen(_)
WirePlainLen(bytes) ==
    IF bytes = <<>> THEN 0
    ELSE LET n == RecLenOf(bytes[1])
         IN (IF RecTypeOf(bytes[1]) = RecType.appdata THEN n ELSE 0)
            + WirePlainLen(SubSeq(bytes, n + 2, Len(bytes)))

\* the plaintext the peer has sent to side s that s has not received yet
Available(w, s) ==
    Len(w.conn[s].connection.plain)
    + WirePlainLen(w.conn[s].connection.inbuf
                   \o w.queues[w.box[w.conn[s].connected_buffer].h.recv].buf)

InitConn ==
    \E ht \in HandshakeTypes :
    \E w \in {Bind(ConnectedBuffer_new(<<>>), LAMBDA b :
                 TlsConnPair_new(World(b.queues, NoBox, NoConn), DefaultCryptoConfig, ht, b.h))} :
       /\ queues = w.queues
       /\ box = w.box
       /\ conn = w.conn
       /\ pair = [state |-> "ready", built |-> "new", kind |-> "inverse", nhs |-> 0]
       /\ op = [name |-> "new", side |-> "none", out |-> "Ok", engineErr |-> FALSE, len |-> 0]
       /\ data = NoData
       /\ dropLog = <<>>
       /\ pipeLog = NoLog
       /\ bench = NoBench
       /\ hs = <<>>
       /\ ret = NoRet

\* conn.handshake() on one side, while the pair's handshake is incomplete
ConnHandshake(s) ==
    /\ pair.state = "ready"
    /\ ~TlsConnPair_handshake_completed(World(queues, box, conn))
    /\ \E r \in {S2NConnection_handshake(World(queues, box, conn), s)} :
       /\ queues' = r.w.queues
       /\ box' = r.w.box
       /\ conn' = r.w.conn
       /\ pair' = [pair EXCEPT !.state = IF r.out = "panic" THEN "panicked" ELSE "ready"]
       /\ op' = [name |-> "handshake", side |-> s, out |-> r.out,
                 engineErr |-> r.engineErr, len |-> 0]
       /\ UNCHANGED <<data, dropLog>>
       /\ BufVarsUnchanged

\* conn.send(bytes) on an established connection
ConnSend(s, bytes) ==
    /\ pair.state = "ready"
    /\ S2NConnection_handshake_completed(World(queues, box, conn), s)
    /\ Available(World(queues, box, conn), Other(s)) + Len(bytes) <= MaxPending
    /\ \E r \in {S2NConnection_send(World(queues, box, conn), s, bytes)} :
       /\ queues' = r.w.queues
       /\ box' = r.w.box
       /\ conn' = r.w.conn
       /\ pair' = [pair EXCEPT !.state = IF r.out = "panic" THEN "panicked" ELSE "ready"]
       /\ op' = [name |-> "send", side |-> s, out |-> r.out,
                 engineErr |-> FALSE, len |-> Len(bytes)]
       /\ UNCHANGED <<data, dropLog>>
       /\ BufVarsUnchanged

\* conn.recv(&mut buf) on an established connection, buf holding len bytes
\* of 0xFF before the call
ConnRecv(s, len) ==
    /\ pair.state = "ready"
    /\ S2NConnection_handshake_completed(World(queues, box, conn), s)
    /\ \E r \in {S2NConnection_recv(World(queues, box, conn), s, [k \in 1..len |-> 255])} :
       /\ queues' = r.w.queues
       /\ box' = r.w.box
       /\ conn' = r.w.conn
       /\ pair' = [pair EXCEPT !.state = IF r.out = "panic" THEN "panicked" ELSE "ready"]
       /\ op' = [name |-> "recv", side |-> s, out |-> r.out, engineErr |-> FALSE, len |-> len]
       /\ data' = [before |-> [k \in 1..len |-> 255], after |-> r.buf, trips |-> 0]
       /\ UNCHANGED dropLog
       /\ BufVarsUnchanged

NextConn ==
    \/ \E s \in Sides : ConnHandshake(s)
    \/ \E bytes \in XferBuffers : ConnSend("client", bytes)
    \/ \E len \in 1..XferMaxLen : ConnRecv("server", len)

SpecConn == InitConn /\ [][NextConn]_vars

----------------------------------------------------------------------------
(* SpecReport: the introspection operations on a pair whose two engines    *)
(* are in any pair of states two s2n connections facing each other can     *)
(* report: before, during or after a negotiation of any suite and version. *)

\* what an engine has negotiated: suite code and protocol version
Negotiated ==
    {[suite |-> SuiteCode.AES_128_GCM_SHA256, version |-> "TLS13"],
     [suite |-> SuiteCode.AES_256_GCM_SHA384, version |-> "TLS13"],
     [suite |-> SuiteCode.CHACHA20_POLY1305_SHA256, version |-> "TLS13"],
     [suite |-> SuiteCode.ECDHE_RSA_AES128_GCM_SHA256, version |-> "TLS12"]}

\* the client has chosen nothing until it completes; the server chooses when
\* it answers the ClientHello and completes after the client
EnginePairs ==
    {<<[hs |-> "start", suite |-> 0, version |-> "TLS13"],
       [hs |-> "start", suite |-> 0, version |-> "TLS13"]>>}
    \cup {<<[hs |-> "wait_server", suite |-> 0, version |-> "TLS13"],
            [hs |-> "wait_finished", suite |-> n.suite, version |-> n.version]>> : n \in Negotiated}
    \cup {<<[hs |-> "done", suite |-> n.suite, version |-> n.version],
            [hs |-> h, suite |-> n.suite, version |-> n.version]>> :
               n \in Negotiated, h \in {"wait_finished", "done"}}

\* the connection of side s with its engine in state x
WithEngine(c, x) ==
    [c EXCEPT !.connection.hs = x.hs, !.connection.suite = x.suite,
              !.connection.version = x.version, !.handshake_completed = (x.hs = "done")]

InitReport ==
    \E ht \in HandshakeTypes, x \in EnginePairs :
    \E w \in {Bind(ConnectedBuffer_new(<<>>), LAMBDA b :
                 TlsConnPair_new(World(b.queues, NoBox, NoConn), DefaultCryptoConfig, ht, b.h))} :
       /\ queues = w.queues
       /\ box = w.box
       /\ conn = [client |-> WithEngine(w.conn["client"], x[1]),
                  server |-> WithEngine(w.conn["server"], x[2])]
       /\ pair = [state |-> "ready", built |-> "wrap", kind |-> "inverse", nhs |-> 0]
       /\ op = [name |-> "wrap", side |-> "none", out |-> "Ok", engineErr |-> FALSE, val |-> "none"]
       /\ data = NoData
       /\ dropLog = <<>>
       /\ pipeLog = NoLog
       /\ bench = NoBench
       /\ hs = <<>>
       /\ ret = NoRet

\* conn.get_negotiated_cipher_suite() on one side
ConnGetNegotiatedCipherSuite(s) ==
    /\ pair.state = "ready"
    /\ \E r \in {S2NConnection_get_negotiated_cipher_suite(World(queues, box, conn), s)} :
       /\ pair' = [pair EXCEPT !.state = IF r.out = "panic" THEN "panicked" ELSE "ready"]
       /\ op' = [name |-> "conn_get_negotiated_cipher_suite", side |-> s, out |-> r.out,
                 engineErr |-> FALSE, val |-> r.val]
       /\ UNCHANGED <<queues, box, conn, data, dropLog>>
       /\ BufVarsUnchanged

NextReport ==
    \/ GetNegotiatedCipherSuite(TRUE)
    \/ NegotiatedTls13(TRUE)
    \/ \E s \in Sides : ConnGetNegotiatedCipherSuite(s)

SpecReport == InitReport /\ [][NextReport]_vars

----------------------------------------------------------------------------
(* SpecPair: the life of a pair built by new over the grid or by wrap over  *)
(* the default configuration, with handshakes, shrinks and round trips in  *)
(* any order.                                                              *)

NextPair ==
    \/ \E cc \in CryptoConfigs, ht \in HandshakeTypes : New(cc, ht)
    \/ \E ht \in HandshakeTypes, k \in WrapKinds :
           Wrap(DefaultCryptoConfig, DefaultCryptoConfig, ht, k)
    \/ Handshake
    \/ \E buf \in XferBuffers : RoundTrip(buf)
    \/ ShrinkConnectionBuffers
    \/ ShrinkConnectedBuffers

SpecPair == Init /\ [][NextPair]_vars

----------------------------------------------------------------------------
(* SpecLegs: TlsConnPair<C, S> over any two implementations of the         *)
(* TlsConnection trait (harness.rs:90-151): every handshake, send and recv *)
(* of a side returns Ok(()) or Err, and each side records the calls made   *)
(* on it.                                                                  *)

\* the number of calls one side receives in a run of SpecLegs
MaxCalls == 4

Outcomes == [1..4 -> {"Ok", "Err"}]

\* round_trip_transfer: client.send?, server.recv?, server.send?, client.recv?
RoundTripLegs ==
    <<[side |-> "client", method |-> "send"], [side |-> "server", method |-> "recv"],
      [side |-> "server", method |-> "send"], [side |-> "client", method |-> "recv"]>>

\* handshake: for _ in 0..2 { client.handshake()?; server.handshake()?; }
HandshakeLegs ==
    <<[side |-> "client", method |-> "handshake"], [side |-> "server", method |-> "handshake"],
      [side |-> "client", method |-> "handshake"], [side |-> "server", method |-> "handshake"]>>

\* variant of the ? operator that goes on to the next call after an Err
RECURSIVE TlsConnPair_run_ignore_err(_, _, _, _, _)
TlsConnPair_run_ignore_err(c, legs, outcomes, k, trace) ==
    IF k > Len(legs)
    THEN [conn |-> c, trace |-> trace,
          out |-> IF \E j \in 1..Len(legs) : outcomes[j] = "Err" THEN "Err" ELSE "Ok"]
    ELSE TlsConnPair_run_ignore_err(
             [c EXCEPT ![legs[k].side].calls = Append(@, legs[k].method)],
             legs, outcomes, k + 1, Append(trace, legs[k]))

\* the calls of legs from the k-th on, each followed by ?: the first Err
\* returns from the operation
RECURSIVE TlsConnPair_run(_, _, _, _, _)
TlsConnPair_run(c, legs, outcomes, k, trace) ==
    IF k > Len(legs) THEN [conn |-> c, trace |-> trace, out |-> "Ok"]
    ELSE LET c1 == [c EXCEPT ![legs[k].side].calls = Append(@, legs[k].method)]
             t1 == Append(trace, legs[k])
         IN IF outcomes[k] = "Err" THEN [conn |-> c1, trace |-> t1, out |-> "Err"]
            ELSE TlsConnPair_run(c1, legs, outcomes, k + 1, t1)

InitLegs ==
    /\ queues = <<>>
    /\ hs = <<>>
    /\ ret = NoRet
    /\ box = NoBox
    /\ conn = [s \in Sides |-> [state |-> "generic", calls |-> <<>>]]
    /\ pair = [NoPair EXCEPT !.state = "generic"]
    /\ op = NoOp
    /\ data = NoData
    /\ dropLog = <<>>
    /\ pipeLog = NoLog
    /\ bench = NoBench

\* pair.round_trip_transfer(&mut data), its k-th call returning outcomes[k]
LegsRoundTrip(outcomes) ==
    /\ \A s \in Sides : Len(conn[s].calls) + 2 <= MaxCalls
    /\ \E r \in {TlsConnPair_run(conn, RoundTripLegs, outcomes, 1, <<>>)} :
       /\ conn' = r.conn
       /\ op' = [name |-> "round_trip_transfer", out |-> r.out, engineErr |-> FALSE,
                 outcomes |-> outcomes, trace |-> r.trace]
    /\ UNCHANGED <<queues, box, pair, data, dropLog>>
    /\ BufVarsUnchanged

\* pair.handshake(), its k-th call returning outcomes[k]
LegsHandshake(outcomes) ==
    /\ \A s \in Sides : Len(conn[s].calls) + 2 <= MaxCalls
    /\ \E r \in {TlsConnPair_run(conn, HandshakeLegs, outcomes, 1, <<>>)} :
       /\ conn' = r.conn
       /\ op' = [name |-> "handshake", out |-> r.out, engineErr |-> FALSE,
                 outcomes |-> outcomes, trace |-> r.trace]
    /\ UNCHANGED <<queues, box, pair, data, dropLog>>
    /\ BufVarsUnchanged

NextLegs ==
    \/ \E outcomes \in Outcomes : LegsRoundTrip(outcomes)
    \/ \E outcomes \in Outcomes : LegsHandshake(outcomes)

SpecLegs == InitLegs /\ [][NextLegs]_vars

----------------------------------------------------------------------------
(* SpecCb: the engine of either side of a default pair calling the I/O     *)
(* callbacks it was given, with the context it was given.                  *)

\* send_cb(context, data, len) called by the engine of side s
CbSend(s, bytes) ==
    /\ Len(queues[box[conn[s].connection.send_ctx].h.send].buf) + Len(bytes) <= MaxQueue
    /\ \E r \in {S2NConnection_send_cb(queues, box, conn[s].connection.send_ctx, bytes)} :
       /\ queues' = r.queues
       /\ ret' = [op |-> "send_cb", i |-> s, dlen |-> Len(bytes), res |-> "", n |-> r.rc,
                  out |-> bytes]
    /\ UNCHANGED <<hs, box, conn, pair, op, data, dropLog, pipeLog, bench>>

\* recv_cb(context, data, len) called by the engine of side s
CbRecv(s, len) ==
    /\ \E r \in {S2NConnection_recv_cb(queues, box, conn[s].connection.recv_ctx, len)} :
       /\ queues' = r.queues
       /\ ret' = [op |-> "recv_cb", i |-> s, dlen |-> len, res |-> r.errno, n |-> r.rc,
                  out |-> r.out]
    /\ UNCHANGED <<hs, box, conn, pair, op, data, dropLog, pipeLog, bench>>

NextCb ==
    \/ \E s \in Sides, bytes \in SeqsUpTo(Byte, MaxLen) : CbSend(s, bytes)
    \/ \E s \in Sides, len \in 0..MaxLen : CbRecv(s, len)

SpecCb == InitXfer /\ [][NextCb]_vars

----------------------------------------------------------------------------
(* SpecConfig: a caller making configs over the whole grid and keeping the *)
(* last one made for each role, as memory.rs:83-84 keeps client_config and *)
(* server_config.                                                          *)

ConfigModes == {"Client", "Server"}

InitConfig ==
    /\ queues = <<>>
    /\ hs = <<>>
    /\ ret = NoRet
    /\ box = NoBox
    /\ conn = NoConn
    /\ pair = NoPair
    /\ op = NoOp
    /\ data = NoData
    /\ dropLog = <<>>
    /\ pipeLog = NoLog
    /\ bench = [pc |-> "configs", made |-> [m \in ConfigModes |-> <<>>]]

\* T::make_config(mode, crypto_config, handshake_type)?
MakeConfig(mode, crypto_config, handshake_type) ==
    /\ \E c \in {S2NConnection_make_config(mode, crypto_config, handshake_type)} :
          bench' = [bench EXCEPT !.made[mode] =
                       <<[crypto_config |-> crypto_config,
                          handshake_type |-> handshake_type, config |-> c]>>]
    /\ UNCHANGED <<queues, hs, ret, box, conn, pair, op, data, dropLog, pipeLog>>

NextConfig ==
    \E mode \in ConfigModes, cc \in CryptoConfigs, ht \in HandshakeTypes :
        MakeConfig(mode, cc, ht)

SpecConfig == InitConfig /\ [][NextConfig]_vars

----------------------------------------------------------------------------
(* SpecMem: one run of the memory benchmark for s2n-tls (bin/memory.rs):   *)
(* memory_bench calls memory_bench_conn for the chosen mode and, in pair   *)
(* mode, for the client and the server mode as well, then                  *)
(* memory_bench_library_size. bench.events is the sequence of calls on     *)
(* pairs and of snapshot requests.                                         *)

\* memory.rs:88 `for i in 1..101` (and 65-70), scaled down
MaxPairs == 2

BenchModes == {"Client", "Server", "Pair"}

\* memory_bench: the functions called for opt.mode, in order
Phases(mode) ==
    IF mode = "Pair" THEN <<"Pair", "Client", "Server", "Library">> ELSE <<mode>>

\* dir_name without the library's name
DirName(mode) ==
    CASE mode = "Client" -> "client" [] mode = "Server" -> "server" [] OTHER -> "pair"

\* variant of the snapshot label that does not depend on i
SnapshotLabel_same(dir, i) == <<"snapshot", dir, 0>>

\* "snapshot target/memory/{dir_name}/{i}.snapshot"
SnapshotLabel(dir, i) == <<"snapshot", dir, i>>

\* "xtmemory target/memory/xtree/{dir_name}.out" and ".../{lib_name}_library.out"
XtreeLabel(mode) == <<"xtmemory", IF mode = "Library" THEN "library" ELSE DirName(mode)>>

\* variant that goes from the handshake to the transport buffers at once
AfterHandshake_transport_only(mode, keep) == "shrink_connected"

\* what follows handshake()?: shrink_connection_buffers, which
\* memory_bench_conn skips with keep_internal_buffers
AfterHandshake(mode, keep) ==
    IF mode = "Library" \/ ~keep THEN "shrink_connection" ELSE "shrink_connected"

\* connected_buffer().clone_inverse() of side s: a handle to the same two
\* queues as the side's own, with receive and send swapped
ConnectedBuffer_clone_inverse(w, s) ==
    ConnectedBuffer_inverse(S2NConnection_clone_connected_buffer(w, s))

\* the function in progress
BenchMode == bench.phases[bench.phase]

\* n times: ConnectedBuffer::new(), shrink(), push
RECURSIVE ReserveBuffers(_, _)
ReserveBuffers(qs, n) ==
    IF n = 0 THEN [queues |-> qs, buffers |-> <<>>]
    ELSE Bind(ConnectedBuffer_new(qs), LAMBDA b :
             Bind(ReserveBuffers(ConnectedBuffer_shrink(b.queues, b.h), n - 1), LAMBDA r :
                 [queues |-> r.queues, buffers |-> <<b.h>> \o r.buffers]))

\* the kept structures all of whose kept sides are alive
AliveStructs(structs, bx) ==
    {k \in 1..Len(structs) :
        \A sd \in structs[k].kept :
            /\ structs[k].conn[sd].state = "live"
            /\ structs[k].conn[sd].connection.alive
            /\ bx[structs[k].conn[sd].connected_buffer].state = "live"}

Event(ev, i, label, ok, alive) ==
    [ev |-> ev, phase |-> bench.phase, pair |-> i, label |-> label, ok |-> ok, alive |-> alive]

BenchStart(phases, phase, gen, keep) ==
    [pc |-> IF phases[phase] = "Library" THEN "library" ELSE "reserve",
     phases |-> phases, phase |-> phase, gen |-> gen, keep |-> keep, i |-> 0,
     buffers |-> <<>>, configs |-> <<>>, warm |-> <<>>, structs |-> <<>>, events |-> <<>>]

InitMem ==
    \E mode \in BenchModes, gen \in BOOLEAN, keep \in BOOLEAN :
       /\ queues = <<>>
       /\ hs = <<>>
       /\ ret = NoRet
       /\ box = NoBox
       /\ conn = NoConn
       /\ pair = NoPair
       /\ op = NoOp
       /\ data = NoData
       /\ dropLog = <<>>
       /\ pipeLog = NoLog
       /\ bench = BenchStart(Phases(mode), 1, gen, keep)

MemUnchanged == UNCHANGED <<hs, ret, data, pipeLog>>

\* memory.rs:67-74: reserve space for buffers before benching
MemReserve ==
    /\ bench.pc = "reserve"
    /\ \E r \in {ReserveBuffers(queues, MaxPairs)} :
       /\ queues' = r.queues
       /\ bench' = [bench EXCEPT !.buffers = r.buffers, !.pc = "warmup"]
    /\ UNCHANGED <<box, conn, pair, op, dropLog>>
    /\ MemUnchanged

\* memory.rs:76-78: TlsConnPair::default(); harness.handshake().unwrap()
MemWarmUp ==
    /\ bench.pc = "warmup"
    /\ \E r \in {Bind(ConnectedBuffer_new(queues), LAMBDA b :
                   TlsConnPair_handshake(
                       TlsConnPair_new(World(b.queues, box, NoConn), DefaultCryptoConfig,
                                       DefaultHandshakeType, b.h)))} :
       /\ queues' = r.w.queues
       /\ box' = r.w.box
       /\ op' = [name |-> "handshake", out |-> r.out, engineErr |-> r.engineErr]
       /\ bench' = [bench EXCEPT !.warm = <<r.w.conn>>,
                                 !.pc = IF r.out = "Ok" THEN "configs" ELSE "panicked"]
    /\ UNCHANGED <<conn, pair, dropLog>>
    /\ MemUnchanged

\* memory.rs:80-82: make configs
MemConfigs ==
    /\ bench.pc = "configs"
    /\ bench' = [bench EXCEPT
           !.configs = <<S2NConnection_make_config("Client", DefaultCryptoConfig,
                                                   DefaultHandshakeType),
                         S2NConnection_make_config("Server", DefaultCryptoConfig,
                                                   DefaultHandshakeType)>>,
           !.pc = "snapshot0"]
    /\ UNCHANGED <<queues, box, conn, pair, op, dropLog>>
    /\ MemUnchanged

\* memory.rs:84-85: the initial memory snapshot
MemSnapshot0 ==
    /\ bench.pc = "snapshot0"
    /\ bench' = [bench EXCEPT
           !.events = Append(@, Event("snapshot", 0, SnapshotLabel(DirName(BenchMode), 0), TRUE,
                                      Cardinality(AliveStructs(bench.structs, box)))),
           !.i = 1, !.pc = "build"]
    /\ UNCHANGED <<queues, box, conn, pair, op, dropLog>>
    /\ MemUnchanged

\* memory.rs:88-110: the two connections of pair i, the server's over
\* connected_buffer().clone_inverse() of the client's, and TlsConnPair::wrap
MemBuild ==
    /\ bench.pc = "build"
    /\ \E buf \in {bench.buffers[Len(bench.buffers)]} :
       \E w1 \in {IF bench.gen
                  THEN S2NConnection_new(World(queues, box, NoConn), "client", "Client",
                                         DefaultCryptoConfig, DefaultHandshakeType, buf)
                  ELSE S2NConnection_new_from_config(World(queues, box, NoConn), "client",
                                                     bench.configs[1], buf)} :
       \E sb \in {ConnectedBuffer_clone_inverse(w1, "client")} :
       \E w2 \in {IF bench.gen
                  THEN S2NConnection_new(w1, "server", "Server",
                                         DefaultCryptoConfig, DefaultHandshakeType, sb)
                  ELSE S2NConnection_new_from_config(w1, "server", bench.configs[2], sb)} :
       \E r \in {TlsConnPair_wrap(w2)} :
       /\ queues' = w2.queues
       /\ box' = w2.box
       /\ conn' = w2.conn
       /\ pair' = [state |-> IF r = "Ok" THEN "ready" ELSE "panicked",
                   built |-> "wrap", kind |-> "inverse", nhs |-> 0]
       /\ op' = [name |-> "wrap", out |-> r, engineErr |-> FALSE]
       /\ bench' = [bench EXCEPT
              !.buffers = SubSeq(@, 1, Len(@) - 1),
              !.events = Append(@, Event("wrap", bench.i, <<>>, r = "Ok", 0)),
              !.pc = IF r = "Ok" THEN "handshake" ELSE "panicked"]
    /\ UNCHANGED dropLog
    /\ MemUnchanged

\* memory.rs:35: TlsConnPair::default() of memory_bench_library_size
MemLibrary ==
    /\ bench.pc = "library"
    /\ \E w \in {Bind(ConnectedBuffer_new(queues), LAMBDA b :
                   TlsConnPair_new(World(b.queues, box, NoConn), DefaultCryptoConfig,
                                   DefaultHandshakeType, b.h))} :
       /\ queues' = w.queues
       /\ box' = w.box
       /\ conn' = w.conn
       /\ pair' = [state |-> "ready", built |-> "new", kind |-> "inverse", nhs |-> 0]
       /\ op' = [name |-> "new", out |-> "Ok", engineErr |-> FALSE]
       /\ bench' = [bench EXCEPT !.events = Append(@, Event("new", 0, <<>>, TRUE, 0)),
                                 !.pc = "handshake"]
    /\ UNCHANGED dropLog
    /\ MemUnchanged

\* memory.rs:36 and 111: harness.handshake()?
MemHandshake ==
    /\ bench.pc = "handshake"
    /\ \E r \in {TlsConnPair_handshake(World(queues, box, conn))} :
       /\ queues' = r.w.queues
       /\ box' = r.w.box
       /\ conn' = r.w.conn
       /\ pair' = [pair EXCEPT !.state = IF r.out = "panic" THEN "panicked" ELSE "ready",
                               !.nhs = 1]
       /\ op' = [name |-> "handshake", out |-> r.out, engineErr |-> r.engineErr]
       /\ bench' = [bench EXCEPT
              !.events = Append(@, Event("handshake", bench.i, <<>>,
                                         r.out = "Ok" /\ TlsConnPair_handshake_completed(r.w), 0)),
              !.pc = IF r.out = "Ok" THEN AfterHandshake(BenchMode, bench.keep)
                     ELSE "panicked"]
    /\ UNCHANGED dropLog
    /\ MemUnchanged

\* memory.rs:37 and 112-114: harness.shrink_connection_buffers()
MemShrinkConnection ==
    /\ bench.pc = "shrink_connection"
    /\ \E r \in {TlsConnPair_shrink_connection_buffers(World(queues, box, conn))} :
       /\ queues' = r.w.queues
       /\ box' = r.w.box
       /\ conn' = r.w.conn
       /\ pair' = [pair EXCEPT !.state = IF r.out = "panic" THEN "panicked" ELSE "ready"]
       /\ op' = [name |-> "shrink_connection_buffers", out |-> r.out, engineErr |-> FALSE]
       /\ bench' = [bench EXCEPT
              !.events = Append(@, Event("shrink_connection_buffers", bench.i, <<>>,
                                         r.out = "Ok", 0)),
              !.pc = IF r.out = "Ok" THEN "shrink_connected" ELSE "panicked"]
    /\ UNCHANGED dropLog
    /\ MemUnchanged

\* memory.rs:38 and 115: harness.shrink_connected_buffers()
MemShrinkConnected ==
    /\ bench.pc = "shrink_connected"
    /\ \E w \in {TlsConnPair_shrink_connected_buffers(World(queues, box, conn))} :
       /\ queues' = w.queues
       /\ box' = w.box
       /\ conn' = w.conn
       /\ op' = [name |-> "shrink_connected_buffers", out |-> "Ok", engineErr |-> FALSE]
       /\ bench' = [bench EXCEPT
              !.events = Append(@, Event("shrink_connected_buffers", bench.i, <<>>, TRUE, 0)),
              !.pc = IF BenchMode = "Library" THEN "xtree" ELSE "push"]
    /\ UNCHANGED <<pair, dropLog>>
    /\ MemUnchanged

\* memory.rs:117-121: tls_structs.push of the pair, or of one side of it,
\* the other side being dropped
MemPush ==
    /\ bench.pc = "push"
    /\ \E r \in {CASE BenchMode = "Client" ->
                        S2NConnection_drop(World(queues, box, conn), dropLog, "server")
                   [] BenchMode = "Server" ->
                        S2NConnection_drop(World(queues, box, conn), dropLog, "client")
                   [] OTHER -> [w |-> World(queues, box, conn), log |-> dropLog]} :
       /\ queues' = r.w.queues
       /\ box' = r.w.box
       /\ dropLog' = r.log
       /\ bench' = [bench EXCEPT
              !.structs = Append(@, [pair |-> bench.i,
                                     kept |-> CASE BenchMode = "Client" -> {"client"}
                                                [] BenchMode = "Server" -> {"server"}
                                                [] OTHER -> Sides,
                                     conn |-> r.w.conn]),
              !.events = Append(@, Event("push", bench.i, <<>>, TRUE, 0)),
              !.pc = "snapshot"]
    /\ conn' = NoConn
    /\ pair' = NoPair
    /\ op' = [name |-> "push", out |-> "Ok", engineErr |-> FALSE]
    /\ MemUnchanged

\* memory.rs:123-124: the memory snapshot of iteration i
MemSnapshot ==
    /\ bench.pc = "snapshot"
    /\ bench' = [bench EXCEPT
           !.events = Append(@, Event("snapshot", bench.i,
                                      SnapshotLabel(DirName(BenchMode), bench.i), TRUE,
                                      Cardinality(AliveStructs(bench.structs, box)))),
           !.i = IF bench.i < MaxPairs THEN bench.i + 1 ELSE bench.i,
           !.pc = IF bench.i < MaxPairs THEN "build" ELSE "xtree"]
    /\ UNCHANGED <<queues, box, conn, pair, op, dropLog>>
    /\ MemUnchanged

\* memory.rs:40-44 and 127-130: the xtree snapshot, and the return of the
\* function, which drops its pairs; memory_bench goes on to the next function
MemXtree ==
    /\ bench.pc = "xtree"
    /\ \E ev \in {Event("xtmemory", IF BenchMode = "Library" THEN 0 ELSE -1,
                        XtreeLabel(BenchMode), TRUE,
                        Cardinality(AliveStructs(bench.structs, box)))} :
       IF bench.phase < Len(bench.phases)
       THEN /\ bench' = [BenchStart(bench.phases, bench.phase + 1, bench.gen, bench.keep)
                            EXCEPT !.events = Append(bench.events, ev)]
            /\ queues' = <<>>
            /\ box' = NoBox
            /\ conn' = NoConn
            /\ pair' = NoPair
       ELSE /\ bench' = [bench EXCEPT !.events = Append(@, ev), !.pc = "done"]
            /\ UNCHANGED <<queues, box, conn, pair>>
    /\ UNCHANGED <<op, dropLog>>
    /\ MemUnchanged

NextMem ==
    \/ MemReserve
    \/ MemWarmUp
    \/ MemConfigs
    \/ MemSnapshot0
    \/ MemBuild
    \/ MemLibrary
    \/ MemHandshake
    \/ MemShrinkConnection
    \/ MemShrinkConnected
    \/ MemPush
    \/ MemSnapshot
    \/ MemXtree

SpecMem == InitMem /\ [][NextMem]_vars

----------------------------------------------------------------------------
(* Properties *)

TheWorld == World(queues, box, conn)

C2_OkImpliesCompleted ==
    (op.name = "handshake" /\ op.out = "Ok") => TlsConnPair_handshake_completed(TheWorld)

\* handshake() has returned Ok on a pair whose sides are both incomplete
C2_Witness ==
    /\ op.name = "handshake"
    /\ op.out = "Ok"
    /\ ~S2NConnection_handshake_completed(TheWorld, "client")
    /\ ~S2NConnection_handshake_completed(TheWorld, "server")

\* C3: an engine-level negotiation error in a handshake step comes back from
\* handshake() as an error value, neither as a panic nor as Ok
C3_EngineErrorReturned ==
    (op.name = "handshake" /\ op.engineErr) => op.out = "Err"

\* the engine has reported a negotiation error and the handshake call panicked
C3_Witness ==
    /\ op.name = "handshake"
    /\ op.engineErr
    /\ op.out = "panic"
    /\ pair.state = "panicked"

\* the position of the drop event of one field of one side, 0 when absent
DropIndex(s, f) ==
    IF \E k \in 1..Len(dropLog) : dropLog[k] = [side |-> s, field |-> f]
    THEN CHOOSE k \in 1..Len(dropLog) : dropLog[k] = [side |-> s, field |-> f]
    ELSE 0

\* C4: in every drop sequence the pinned endpoint is freed exactly once and
\* only after the engine object of the same connection has been destroyed
C4_EngineDestroyedFirst ==
    \A s \in Sides :
        DropIndex(s, "connected_buffer") # 0 =>
            /\ Cardinality({k \in 1..Len(dropLog) :
                               dropLog[k] = [side |-> s, field |-> "connected_buffer"]}) = 1
            /\ DropIndex(s, "connection") # 0
            /\ DropIndex(s, "connection") < DropIndex(s, "connected_buffer")

\* a dropped pair whose client freed its pinned endpoint while its engine was alive
C4_Witness ==
    /\ pair.state = "dropped"
    /\ DropIndex("client", "connected_buffer") # 0
    /\ DropIndex("client", "connected_buffer") < DropIndex("client", "connection")
    /\ box[conn["client"].connected_buffer].state = "freed"

\* C5: from new_from_config until the drop, both callback contexts of a
\* connection are the address of the one endpoint it owns, that allocation is
\* live, and no operation moves, replaces or frees it
C5_ContextStable ==
    [][\A s \in Sides :
          /\ conn[s].state = "live" =>
                /\ conn[s].connection.send_ctx = conn[s].connected_buffer
                /\ conn[s].connection.recv_ctx = conn[s].connected_buffer
                /\ box[conn[s].connected_buffer].state = "live"
          /\ conn'[s].state = "live" =>
                /\ conn'[s].connection.send_ctx = conn'[s].connected_buffer
                /\ conn'[s].connection.recv_ctx = conn'[s].connected_buffer
                /\ box'[conn'[s].connected_buffer].state = "live"
          /\ (conn[s].state = "live" /\ conn'[s].state = "live") =>
                /\ conn'[s].connected_buffer = conn[s].connected_buffer
                /\ box'[conn'[s].connected_buffer] = box[conn[s].connected_buffer]
      ]_vars

\* both connections live after a handshake, a round trip and a shrink of the endpoints
C5_Witness ==
    /\ pair.state = "ready"
    /\ conn["client"].state = "live"
    /\ conn["server"].state = "live"
    /\ data.trips >= 1
    /\ op.name = "shrink_connected_buffers"
    /\ box[conn["client"].connection.recv_ctx].state = "live"

\* the handle and the receive queue a read step has worked on
ReadHandle == hs[ret'.i]
ReadQueue == queues[ReadHandle.recv]

\* C6: read on an empty receive queue returns WouldBlock and changes no
\* queue; on a non-empty receive queue with a non-empty destination it
\* returns Ok(n) where n is the smaller of len(dest) and the length of the
\* contiguous front slice of the ring, so 1 <= n <= min(len(dest), queue
\* length); it delivers the first n bytes in queue order and removes exactly
\* those from the front of the receive queue
C6_ReadFrontSlice ==
    [][ret'.op = "read" =>
          IF Len(ReadQueue.buf) = 0
          THEN ret'.res = "WouldBlock" /\ queues' = queues
          ELSE ret'.dlen >= 1 =>
                 /\ ret'.res = "Ok"
                 /\ ret'.n = Min(ret'.dlen, FrontLen(ReadQueue))
                 /\ 1 <= ret'.n
                 /\ ret'.n <= Min(ret'.dlen, Len(ReadQueue.buf))
                 /\ ret'.out = SubSeq(ReadQueue.buf, 1, ret'.n)
                 /\ queues'[ReadHandle.recv].buf =
                        SubSeq(ReadQueue.buf, ret'.n + 1, Len(ReadQueue.buf))
                 /\ queues'[ReadHandle.send] = queues[ReadHandle.send]
      ]_vars

\* a read that returned fewer bytes than the destination holds and left bytes queued
C6_Witness ==
    /\ ret.op = "read"
    /\ ret.res = "Ok"
    /\ ret.n < ret.dlen
    /\ Len(queues[hs[ret.i].recv].buf) >= 1

\* C6 as stated: on a non-empty receive queue with a non-empty destination
\* read removes and returns exactly min(len(dest), queue length) bytes
C6_ReadExact ==
    [][ret'.op = "read" =>
          IF Len(ReadQueue.buf) = 0
          THEN ret'.res = "WouldBlock" /\ queues' = queues
          ELSE ret'.dlen >= 1 =>
                 /\ ret'.res = "Ok"
                 /\ ret'.n = Min(ret'.dlen, Len(ReadQueue.buf))
                 /\ ret'.out = SubSeq(ReadQueue.buf, 1, ret'.n)
                 /\ queues'[ReadHandle.recv].buf =
                        SubSeq(ReadQueue.buf, ret'.n + 1, Len(ReadQueue.buf))
      ]_vars

\* C7: write(src) succeeds, returns len(src), appends all of src to the back
\* of the send queue and leaves the receive queue unchanged; the inverse
\* endpoint's next read sees the bytes without a flush; flush changes no state
C7_WriteAppendsAll ==
    [][/\ ret'.op = "write" =>
             \A src \in SeqsUpTo(Byte, MaxLen) :
                 BufWrite(ret'.i, src) =>
                     LET h == hs[ret'.i]
                     IN /\ ret'.res = "Ok"
                        /\ ret'.n = Len(src)
                        /\ queues'[h.send].buf = queues[h.send].buf \o src
                        /\ queues'[h.recv] = queues[h.recv]
                        /\ src # <<>> =>
                              LET r == ConnectedBuffer_read(queues', ConnectedBuffer_inverse(h),
                                                            MaxQueue)
                              IN /\ r.res = "Ok"
                                 /\ r.out = SubSeq(queues[h.send].buf \o src, 1, r.n)
       /\ ret'.op = "flush" => (ret'.res = "Ok" /\ queues' = queues)
      ]_vars

\* a write that wrapped around the end of the ring
C7_Witness ==
    /\ ret.op = "write"
    /\ ret.n = 1
    /\ Len(queues[hs[ret.i].send].buf) = 2
    /\ queues[hs[ret.i].send].head = 1

\* every handle over the queues of the transport
Handles == [recv : 1..Len(queues), send : 1..Len(queues)]

\* C8: h.inverse().inverse() equals h by identity, h.inverse() has the send
\* queue of h as its receive queue and the receive queue of h as its send
\* queue, and the inverse of a handle made by new() is not equal to it
C8_InverseInvolution ==
    /\ \A h \in Handles \cup {hs[i] : i \in Slots} :
          /\ ConnectedBuffer_eq(ConnectedBuffer_inverse(ConnectedBuffer_inverse(h)), h)
          /\ ConnectedBuffer_inverse(h).recv = h.send
          /\ ConnectedBuffer_inverse(h).send = h.recv
    /\ ~ConnectedBuffer_eq(ConnectedBuffer_inverse(hs[1]), hs[1])
    /\ ConnectedBuffer_eq(hs[2], hs[1]) \/ ConnectedBuffer_eq(hs[2], ConnectedBuffer_inverse(hs[1]))

\* the derived handle, inverted a second time, is the original handle again
C8_Witness ==
    /\ ret.op = "inverse"
    /\ ConnectedBuffer_eq(hs[2], hs[1])

\* C9: wrap succeeds only when the client's handle is the inverse of the
\* server's; it fails its assertion for two independently created transports
\* and for two connections over the same view of one transport, whatever
\* the queues hold
C9_WrapAssertsInverse ==
    pair.built = "wrap" =>
        /\ pair.kind = "inverse" => ~(op.name = "wrap" /\ op.out = "panic")
        /\ pair.kind # "inverse" =>
              (op.name = "wrap" /\ op.out = "panic" /\ pair.state = "panicked")
        /\ (op.name = "wrap" /\ op.out = "Ok") =>
              ConnectedBuffer_eq(
                  S2NConnection_clone_connected_buffer(TheWorld, "client"),
                  ConnectedBuffer_inverse(S2NConnection_clone_connected_buffer(TheWorld, "server")))

\* wrap has failed on two connections over the same view, all queues holding the same bytes
C9_Witness ==
    /\ pair.kind = "same"
    /\ op.name = "wrap"
    /\ op.out = "panic"
    /\ \A k \in 1..Len(queues) : queues[k].buf = queues[1].buf

\* C10: after a completed handshake, a round_trip_transfer that returns Ok
\* leaves the buffer equal byte for byte to its content before the call, on
\* every one of any number of consecutive round trips
C10_RoundTripPreserves ==
    (op.name = "round_trip_transfer" /\ op.out = "Ok") => data.after = data.before

\* a second round trip returned Ok with the buffer changed
C10_Witness ==
    /\ op.name = "round_trip_transfer"
    /\ op.out = "Ok"
    /\ data.trips = 2
    /\ data.after # data.before

\* C11: a handshake step whose engine meets an empty receive queue and
\* reports the negotiation as still in progress terminates with Ok(()),
\* records handshake_completed = false and leaves nothing unread
C11_StepNeverBlocks ==
    [][op'.name = "handshake" =>
          LET p == Connection_poll_negotiate(queues, box, conn[op'.side].connection)
          IN p.poll = "Pending" =>
                /\ op'.out = "Ok"
                /\ pair'.state = "ready"
                /\ ~conn'[op'.side].handshake_completed
                /\ queues'[box'[conn'[op'.side].connected_buffer].h.recv].buf = <<>>
      ]_vars

\* the client's step has returned Ok while it waits for the server's flight
C11_Witness ==
    /\ op.name = "handshake"
    /\ op.side = "client"
    /\ op.out = "Ok"
    /\ ~conn["client"].handshake_completed
    /\ conn["client"].connection.hs = "wait_server"
    /\ queues[box[conn["client"].connected_buffer].h.recv].buf = <<>>

\* the plaintext carried by the application-data records of a byte sequence
RECURSIVE WirePlain(_, _)
WirePlain(bytes, key) ==
    IF bytes = <<>> THEN <<>>
    ELSE LET n == RecLenOf(bytes[1])
         IN (IF RecTypeOf(bytes[1]) = RecType.appdata
             THEN Decrypt(SubSeq(bytes, 2, n + 1), key) ELSE <<>>)
            \o WirePlain(SubSeq(bytes, n + 2, Len(bytes)), key)

\* C12: when send(data) returns Ok, the transport send queue of the
\* connection is its old content followed by whole records that carry the
\* encrypted form of all of data, in order; the connection keeps nothing
\* back, and the queue the peer's endpoint reads from is that same queue
C12_SendFlushesAll ==
    [][op'.name = "send" =>
          \A bytes \in XferBuffers :
              (ConnSend(op'.side, bytes) /\ op'.out = "Ok") =>
                  LET h == box[conn[op'.side].connected_buffer].h
                      peer == box[conn[Other(op'.side)].connected_buffer].h
                      old == queues[h.send].buf
                      new == queues'[h.send].buf
                      added == SubSeq(new, Len(old) + 1, Len(new))
                  IN /\ SubSeq(new, 1, Len(old)) = old
                     /\ WirePlainLen(added) = Len(bytes)
                     /\ Len(added) > Len(bytes)
                     /\ WirePlain(added, conn[op'.side].connection.suite) = bytes
                     /\ conn'[op'.side].connection = conn[op'.side].connection
                     /\ peer.recv = h.send
                     /\ ConnectedBuffer_read(queues', peer, 1).res = "Ok"
      ]_vars

\* a send of more than one record has returned Ok
C12_Witness ==
    /\ op.name = "send"
    /\ op.out = "Ok"
    /\ op.len = 3
    /\ Len(queues[box[conn[op.side].connected_buffer].h.send].buf) >= 5

\* the positions of the receive buffer that still hold the 0xFF they held before the call
Unfilled == {k \in 1..Len(data.after) : data.after[k] = 255}

\* C13: recv(data) returns Ok only after exactly len(data) plaintext bytes
\* have been decrypted into data, and a would-block from the transport
\* during recv never ends recv in a failure or a panic
C13_RecvExact ==
    op.name = "recv" =>
        /\ op.out # "panic"
        /\ op.out # "Err"
        /\ op.out = "Ok" => Unfilled = {}

\* recv has returned Ok with part of the buffer unwritten although the peer
\* had sent enough plaintext to fill it
C13_Witness ==
    /\ op.name = "recv"
    /\ op.out = "Ok"
    /\ Unfilled # {}
    /\ Available(TheWorld, op.side) >= Cardinality(Unfilled)

\* C14: a recv(data) that asks for more plaintext than the peer has sent
\* returns the TransportExhausted error; it does not return Ok with a
\* partially filled buffer and does not panic
C14_RecvExhausted ==
    [][(op'.name = "recv" /\ Available(TheWorld, op'.side) < op'.len) => op'.out = "Err"]_vars

\* recv has panicked on a connection to which the peer had sent nothing
C14_Witness ==
    /\ op.name = "recv"
    /\ op.out = "panic"
    /\ pair.state = "panicked"
    /\ Available(TheWorld, op.side) = 0

\* the cipher suites of the crypto configurations that select the security
\* policy of side s
RequestedSuites(s) ==
    {cc.cipher_suite : cc \in {c \in CryptoConfigs :
        SecurityPolicy(c.cipher_suite, c.ec_group) = conn[s].connection.config.security_policy}}

\* C15: after a completed handshake both sides report the cipher suite of
\* the CryptoConfig they were built from and both report TLS 1.3;
\* TlsConnPair::get_negotiated_cipher_suite returns that suite and
\* TlsConnPair::negotiated_tls13 returns true
C15_NegotiatedAsRequested ==
    (pair.state = "ready" /\ TlsConnPair_handshake_completed(TheWorld)) =>
        /\ \A s \in Sides :
              /\ S2NConnection_get_negotiated_cipher_suite(TheWorld, s).out = "Ok"
              /\ RequestedSuites(s) = {S2NConnection_get_negotiated_cipher_suite(TheWorld, s).val}
              /\ S2NConnection_negotiated_tls13(TheWorld, s)
        /\ op.name = "get_negotiated_cipher_suite" =>
              (op.out = "Ok" /\ RequestedSuites("client") = {op.val})
        /\ op.name = "negotiated_tls13" => (op.out = "Ok" /\ op.val = TRUE)

\* a pair built by new for AES_256_GCM_SHA384 has reported its suite
C15_Witness ==
    /\ pair.built = "new"
    /\ op.name = "get_negotiated_cipher_suite"
    /\ op.out = "Ok"
    /\ op.val = "AES_256_GCM_SHA384"
    /\ conn["client"].connection.config.security_policy = "20190801"

\* the negotiated cipher suite side s reports, or "none" when it cannot
ReportedSuite(s) ==
    S2NConnection_get_negotiated_cipher_suite(TheWorld, s).val

\* C16: the pair's introspection operations fail fatally when the two sides
\* disagree: get_negotiated_cipher_suite when they report different cipher
\* suites, negotiated_tls13 when they report different TLS 1.3 flags
C16_ReportsAsserted ==
    /\ (op.name = "get_negotiated_cipher_suite"
          /\ ReportedSuite("client") # ReportedSuite("server")) => op.out = "panic"
    /\ (op.name = "negotiated_tls13"
          /\ S2NConnection_negotiated_tls13(TheWorld, "client")
               # S2NConnection_negotiated_tls13(TheWorld, "server")) => op.out = "panic"

\* negotiated_tls13 has returned false for a client that reports TLS 1.3 and
\* a server that reports TLS 1.2
C16_Witness ==
    /\ op.name = "negotiated_tls13"
    /\ op.out = "Ok"
    /\ op.val = FALSE
    /\ S2NConnection_negotiated_tls13(TheWorld, "client")
    /\ ~S2NConnection_negotiated_tls13(TheWorld, "server")

\* C17: S2NConnection::get_negotiated_cipher_suite returns
\* AES_128_GCM_SHA256 for TLS_AES_128_GCM_SHA256, AES_256_GCM_SHA384 for
\* TLS_AES_256_GCM_SHA384, and fails fatally for every other suite name
C17_SuiteMapping ==
    op.name = "conn_get_negotiated_cipher_suite" =>
        LET name == Connection_cipher_suite(conn[op.side].connection)
        IN /\ name = "TLS_AES_128_GCM_SHA256" =>
                 (op.out = "Ok" /\ op.val = "AES_128_GCM_SHA256")
           /\ name = "TLS_AES_256_GCM_SHA384" =>
                 (op.out = "Ok" /\ op.val = "AES_256_GCM_SHA384")
           /\ name \notin {"TLS_AES_128_GCM_SHA256", "TLS_AES_256_GCM_SHA384"} =>
                 (op.out = "panic" /\ pair.state = "panicked")
           /\ op.out = "Ok" => op.val \in CipherSuites

\* the server has negotiated TLS_CHACHA20_POLY1305_SHA256 and asking it for
\* the suite was fatal
C17_Witness ==
    /\ op.name = "conn_get_negotiated_cipher_suite"
    /\ op.side = "server"
    /\ Connection_cipher_suite(conn["server"].connection) = "TLS_CHACHA20_POLY1305_SHA256"
    /\ op.out = "panic"

\* C19: TlsConnPair::handshake on a pair whose handshake has already
\* completed returns an error
C19_RepeatedHandshakeErr ==
    [][(Handshake /\ TlsConnPair_handshake_completed(TheWorld)) => op'.out = "Err"]_vars

\* a pair built by new has been through a second handshake, which returned Ok
C19_Witness ==
    /\ pair.built = "new"
    /\ pair.state = "ready"
    /\ pair.nhs = 2
    /\ op.name = "handshake"
    /\ op.out = "Ok"
    /\ TlsConnPair_handshake_completed(TheWorld)

\* the two shrink operations of the pair
ShrinkOps == {"shrink_connection_buffers", "shrink_connected_buffers"}

\* C18: on a pair whose handshake has completed no shrink operation
\* panics, shrink_connected_buffers leaves both queues empty and a second
\* one in a row changes nothing, and a round_trip_transfer that follows a
\* shrink returns Ok with the bytes it was given
C18_ShrinkIdempotent ==
    [][/\ (TlsConnPair_handshake_completed(TheWorld) /\ op'.name \in ShrinkOps) =>
              (op'.out = "Ok" /\ pair'.state = "ready")
       /\ (TlsConnPair_handshake_completed(TheWorld)
             /\ op'.name = "shrink_connected_buffers") =>
              /\ \A s \in Sides : \A q \in {box'[conn'[s].connected_buffer].h.recv,
                                              box'[conn'[s].connected_buffer].h.send} :
                    queues'[q].buf = <<>>
              /\ op.name = "shrink_connected_buffers" => UNCHANGED <<queues, box, conn>>
       /\ (op.name \in ShrinkOps /\ op'.name = "round_trip_transfer") =>
              (op'.out = "Ok" /\ data'.after = data'.before)]_vars

\* shrink_connection_buffers has returned on a pair that has been through a
\* round trip, with a record of that round trip still queued for the server
C18_Witness ==
    /\ op.name = "shrink_connection_buffers"
    /\ op.out = "Ok"
    /\ data.trips = 1
    /\ queues[box[conn["server"].connected_buffer].h.recv].buf # <<>>

\* the transport handle of side s
HandleOf(s) == box[conn[s].connected_buffer].h

\* C20: while a pair built by new or accepted by wrap exists, the client's
\* receive queue is the server's send queue and the client's send queue the
\* server's receive queue, two different queue objects; no handshake, round
\* trip or shrink step changes the queues a handle refers to
C20_HandlesInverse ==
    [][/\ pair'.state = "ready" =>
              /\ HandleOf("client")'.recv = HandleOf("server")'.send
              /\ HandleOf("client")'.send = HandleOf("server")'.recv
              /\ HandleOf("client")'.recv # HandleOf("client")'.send
       /\ (pair.state = "ready" /\ pair'.state \in {"ready", "panicked"}) =>
              \A s \in Sides : HandleOf(s)' = HandleOf(s)]_vars

\* a pair accepted by wrap has been through a round trip and a shrink of the
\* transport
C20_Witness ==
    /\ pair.built = "wrap"
    /\ pair.state = "ready"
    /\ data.trips > 0
    /\ op.name = "shrink_connected_buffers"
    /\ HandleOf("client").recv = HandleOf("server").send

\* a is a prefix of b
IsPrefix(a, b) == Len(a) <= Len(b) /\ a = SubSeq(b, 1, Len(a))

\* a is a suffix of b
IsSuffix(a, b) == Len(a) <= Len(b) /\ a = SubSeq(b, Len(b) - Len(a) + 1, Len(b))

\* C21: as long as no shrink has been executed, what the reads of an
\* endpoint have returned is a prefix of what the inverse endpoint has
\* written, and the rest of it is the content of the queue between them
C21_ReadsPrefixOfWrites ==
    ~pipeLog.shrunk =>
        \A i \in Slots :
            /\ IsPrefix(pipeLog.read[i], pipeLog.written[Peer(i)])
            /\ pipeLog.read[i] \o queues[hs[i].recv].buf = pipeLog.written[Peer(i)]

\* both endpoints have read, the second one two bytes of three written
C21_Witness ==
    /\ ~pipeLog.shrunk
    /\ pipeLog.written[1] = <<0, 1, 1>>
    /\ pipeLog.read[2] = <<0, 1>>
    /\ pipeLog.read[1] # <<>>

\* the step is an operation of endpoint i that only appends to the send
\* queue of i and only removes from the front of the receive queue of i
OwnQueuesOnly(i) ==
    /\ IsPrefix(queues[hs[i].send].buf, queues'[hs[i].send].buf)
    /\ IsSuffix(queues'[hs[i].recv].buf, queues[hs[i].recv].buf)

\* C22 as stated: every operation of an endpoint, shrink included, only
\* appends to its own send queue and only removes from its own receive
\* queue, so none removes bytes it wrote that the peer has not read
C22_SingleWriter ==
    [][ret'.op \in {"read", "write", "flush", "shrink"} => OwnQueuesOnly(ret'.i)]_vars

\* C22 amended: read, write and flush only append to the endpoint's own
\* send queue and only remove from its own receive queue; shrink empties
\* both queues of the endpoint, unread bytes of its send queue included
C22_SingleWriterButShrink ==
    [][/\ ret'.op \in {"read", "write", "flush"} => OwnQueuesOnly(ret'.i)
       /\ ret'.op = "shrink" =>
              /\ queues'[hs[ret'.i].send].buf = <<>>
              /\ queues'[hs[ret'.i].recv].buf = <<>>]_vars

\* an endpoint has shrunk while the peer had not read all it had written
C22_Witness ==
    /\ ret.op = "shrink"
    /\ pipeLog.shrunk
    /\ Len(pipeLog.read[Peer(ret.i)]) < Len(pipeLog.written[ret.i])
    /\ queues[hs[ret.i].send].buf = <<>>

\* C28: read with a destination of length zero returns WouldBlock and
\* leaves every queue as it was, whether or not the receive queue is empty
C28_ZeroLengthRead ==
    [][(ret'.op = "read" /\ ret'.dlen = 0) =>
          (ret'.res = "WouldBlock" /\ ret'.n = 0 /\ queues' = queues)]_vars

\* a read of length zero has returned WouldBlock on a receive queue that
\* holds bytes
C28_Witness ==
    /\ ret.op = "read"
    /\ ret.dlen = 0
    /\ ret.res = "WouldBlock"
    /\ queues[hs[ret.i].recv].buf # <<>>

\* the legs of the operation named name
LegsOf(name) == IF name = "handshake" THEN HandshakeLegs ELSE RoundTripLegs

\* C23: round_trip_transfer makes its calls in the order client.send,
\* server.recv, server.send, client.recv and handshake in the order client
\* step, server step, twice; the first call that fails is the last one
\* made and the operation returns the error, and the operation returns Ok
\* only after all its calls returned Ok
C23_LegsInOrderAbortOnErr ==
    op.name \in {"round_trip_transfer", "handshake"} =>
        /\ IsPrefix(op.trace, LegsOf(op.name))
        /\ op.trace # <<>>
        /\ \A j \in 1..(Len(op.trace) - 1) : op.outcomes[j] = "Ok"
        /\ op.out = "Err" <=> op.outcomes[Len(op.trace)] = "Err"
        /\ op.out = "Ok" => op.trace = LegsOf(op.name)
        /\ \A s \in Sides : Len(conn[s].calls) >= Len(SelectSeq(op.trace, LAMBDA l : l.side = s))

\* a round trip whose server.recv failed has returned the error after two
\* calls although the later calls would have succeeded
C23_Witness ==
    /\ op.name = "round_trip_transfer"
    /\ op.out = "Err"
    /\ op.outcomes = <<"Ok", "Err", "Ok", "Ok">>
    /\ Len(op.trace) = 2
    /\ conn["server"].calls = <<"recv">>
    /\ conn["client"].calls = <<"send">>

\* C24: recv_cb either finds the transport blocking, sets errno to
\* EWOULDBLOCK and returns -1 with every queue as it was and nothing
\* delivered, or returns the positive number of bytes it took from the
\* front of the pinned endpoint's receive queue; send_cb appends all its
\* bytes to the pinned endpoint's send queue and returns their number
C24_CallbackContract ==
    [][LET h == HandleOf(ret'.i)
       IN /\ ret'.op = "recv_cb" =>
                /\ ret'.n = -1 \/ ret'.n > 0
                /\ ret'.n = -1 =>
                      /\ ret'.res = "EWOULDBLOCK"
                      /\ ret'.out = <<>>
                      /\ queues' = queues
                /\ ret'.n > 0 =>
                      /\ ret'.n <= ret'.dlen
                      /\ ret'.n = Len(ret'.out)
                      /\ queues[h.recv].buf = ret'.out \o queues'[h.recv].buf
                      /\ queues'[h.send] = queues[h.send]
          /\ ret'.op = "send_cb" =>
                /\ ret'.n = ret'.dlen
                /\ queues'[h.send].buf = queues[h.send].buf \o ret'.out
                /\ queues'[h.recv] = queues[h.recv]]_vars

\* the server's recv_cb has reported EWOULDBLOCK on an empty receive queue
\* while the bytes the server sent are still queued for the client
C24_Witness ==
    /\ ret.op = "recv_cb"
    /\ ret.i = "server"
    /\ ret.n = -1
    /\ ret.res = "EWOULDBLOCK"
    /\ queues[HandleOf("server").recv].buf = <<>>
    /\ queues[HandleOf("server").send].buf # <<>>

\* the configs made so far, each with the role it was made for
MadeConfigs ==
    UNION {{<<m, bench.made[m][k]>> : k \in 1..Len(bench.made[m])} : m \in ConfigModes}

\* C27: make_config adds the CA certificate and the host-name check exactly
\* for a client or for mutual auth, loads the role's own chain and key
\* exactly for a server or for mutual auth, requires client authentication
\* exactly for mutual auth, and gives different (cipher suite, curve) pairs
\* different security policies
C27_ConfigMaterial ==
    /\ \A x \in MadeConfigs :
          LET m == x[1]
              cc == x[2].crypto_config
              ht == x[2].handshake_type
              c == x[2].config.config
          IN /\ x[2].config.mode = m
             /\ c.trust_pem # <<>> <=> (m = "Client" \/ ht = "MutualAuth")
             /\ c.trust_pem # <<>> => c.trust_pem = <<"CACert", cc.sig_type>>
             /\ c.verify_host # <<>> <=> (m = "Client" \/ ht = "MutualAuth")
             /\ c.verify_host # <<>> => c.verify_host = <<"localhost">>
             /\ c.load_pem # <<>> <=> (m = "Server" \/ ht = "MutualAuth")
             /\ (c.load_pem # <<>> /\ m = "Server") =>
                    c.load_pem = <<"ServerCertChain", "ServerKey", cc.sig_type>>
             /\ (c.load_pem # <<>> /\ m = "Client") =>
                    c.load_pem = <<"ClientCertChain", "ClientKey", cc.sig_type>>
             /\ c.client_auth_type = "Required" <=> ht = "MutualAuth"
             /\ c.client_auth_type \in {"None", "Required"}
    /\ \A x \in MadeConfigs, y \in MadeConfigs :
          (x[2].config.config.security_policy = y[2].config.config.security_policy) <=>
              (/\ x[2].crypto_config.cipher_suite = y[2].crypto_config.cipher_suite
               /\ x[2].crypto_config.ec_group = y[2].crypto_config.ec_group)

\* a mutual-auth server config, holding CA certificate and server chain,
\* next to a server-auth client config for another cipher suite
C27_Witness ==
    /\ bench.pc = "configs"
    /\ bench.made["Server"] # <<>>
    /\ bench.made["Client"] # <<>>
    /\ bench.made["Server"][1].handshake_type = "MutualAuth"
    /\ bench.made["Server"][1].config.config.trust_pem # <<>>
    /\ bench.made["Client"][1].handshake_type = "ServerAuth"
    /\ bench.made["Client"][1].config.config.load_pem = <<>>
    /\ bench.made["Client"][1].crypto_config.cipher_suite
         # bench.made["Server"][1].crypto_config.cipher_suite

\* C29: a connection starts with handshake_completed = false; the flag
\* becomes true only in a handshake step that leaves the engine with the
\* negotiation finished, and once true it stays true under every later
\* handshake, round trip and shrink
C29_CompletedMonotone ==
    [][\A s \in Sides :
          /\ (pair.state = "none" /\ pair'.state # "none") => ~conn'[s].handshake_completed
          /\ (pair.state = "ready" /\ ~conn[s].handshake_completed
                /\ conn'[s].handshake_completed) =>
                 (op'.name = "handshake" /\ conn'[s].connection.hs = "done")
          /\ (pair.state = "ready" /\ conn[s].handshake_completed) =>
                 conn'[s].handshake_completed]_vars

\* both flags are still true after a second handshake, a round trip and a
\* shrink of the protocol buffers
C29_Witness ==
    /\ pair.state = "ready"
    /\ pair.nhs = 2
    /\ data.trips > 0
    /\ op.name = "shrink_connection_buffers"
    /\ \A s \in Sides : conn[s].handshake_completed


\* the positions in bench.events of the calls `ev` on pair i of function ph
EventsOf(ev, ph, i) ==
    {k \in 1..Len(bench.events) :
        /\ bench.events[k].ev = ev
        /\ bench.events[k].phase = ph
        /\ bench.events[k].pair = i}

\* the heap snapshots of a pair: snapshot i >= 1 of memory_bench_conn and
\* the xtree snapshot of memory_bench_library_size
PairSnapshots ==
    {k \in 1..Len(bench.events) :
        \/ bench.events[k].ev = "snapshot" /\ bench.events[k].pair >= 1
        \/ bench.events[k].ev = "xtmemory" /\ bench.phases[bench.events[k].phase] = "Library"}

\* no shrink_connected_buffers on a pair precedes a shrink_connection_buffers
\* on the same pair
ProtocolBeforeTransport ==
    \A a, b \in 1..Len(bench.events) :
        /\ bench.events[a].ev = "shrink_connected_buffers"
        /\ bench.events[b].ev = "shrink_connection_buffers"
        /\ bench.events[a].phase = bench.events[b].phase
        /\ bench.events[a].pair = bench.events[b].pair
        => b < a

\* C25 (as stated): in the memory benchmark no shrink_connected_buffers call
\* on a pair precedes a shrink_connection_buffers call on the same pair, and
\* the heap snapshot of a pair is taken only after both calls.
C25_ShrinkBothBeforeSnapshot ==
    /\ ProtocolBeforeTransport
    /\ \A k \in PairSnapshots :
          /\ \E a \in EventsOf("shrink_connection_buffers", bench.events[k].phase,
                               bench.events[k].pair) : a < k
          /\ \E b \in EventsOf("shrink_connected_buffers", bench.events[k].phase,
                               bench.events[k].pair) : b < k

\* C25 (amended): no shrink_connected_buffers call on a pair precedes a
\* shrink_connection_buffers call on the same pair; the heap snapshot of a
\* pair is taken only after its shrink_connected_buffers call, and after a
\* shrink_connection_buffers call before that one too, except in
\* memory_bench_conn run with keep_internal_buffers, which makes no
\* shrink_connection_buffers call at all.
C25_ShrinkOrderUnlessKept ==
    /\ ProtocolBeforeTransport
    /\ \A k \in PairSnapshots :
          \E b \in EventsOf("shrink_connected_buffers", bench.events[k].phase,
                            bench.events[k].pair) :
             /\ b < k
             /\ IF bench.keep /\ bench.phases[bench.events[k].phase] # "Library"
                THEN EventsOf("shrink_connection_buffers", bench.events[k].phase,
                              bench.events[k].pair) = {}
                ELSE \E a \in EventsOf("shrink_connection_buffers", bench.events[k].phase,
                                       bench.events[k].pair) : a < b

\* a finished pair-mode run with keep_internal_buffers: its measured pairs
\* were snapshotted with their protocol buffers kept, the library-size pair
\* with both kinds of buffers shrunk
C25_Witness ==
    /\ bench.pc = "done"
    /\ bench.keep
    /\ Len(bench.phases) = 4
    /\ \E k \in PairSnapshots : bench.phases[bench.events[k].phase] = "Library"
    /\ \E k \in PairSnapshots : bench.events[k].pair = MaxPairs

\* C26: snapshot 0 is requested before the first measured pair is built;
\* each pair i is built, passes the pairing assertion, is handshaked to
\* completion and shrunk, and snapshot i is requested, before pair i+1 is
\* started; the i structures kept so far are alive at snapshot i; all
\* snapshot labels of a run are distinct.
C26_OnePairAtATime ==
    /\ bench.pc # "panicked"
    /\ \A k \in 1..Len(bench.events) :
          bench.events[k].ev = "wrap" =>
             \E j \in EventsOf("snapshot", bench.events[k].phase, bench.events[k].pair - 1) :
                j < k
    /\ \A k \in 1..Len(bench.events) :
          bench.events[k].ev = "snapshot" /\ bench.events[k].pair >= 1 =>
             /\ \E a \in EventsOf("wrap", bench.events[k].phase, bench.events[k].pair) :
                \E b \in EventsOf("handshake", bench.events[k].phase, bench.events[k].pair) :
                \E c \in EventsOf("shrink_connected_buffers", bench.events[k].phase,
                                  bench.events[k].pair) :
                   /\ a < b /\ b < c /\ c < k
                   /\ bench.events[a].ok
                   /\ bench.events[b].ok
             /\ bench.events[k].alive = bench.events[k].pair
             /\ \A j \in 1..Len(bench.events) :
                   /\ bench.events[j].phase = bench.events[k].phase
                   /\ bench.events[j].pair = bench.events[k].pair
                   => j <= k
    /\ \A j, k \in 1..Len(bench.events) :
          j < k /\ bench.events[j].label # <<>> =>
             bench.events[j].label # bench.events[k].label
    /\ bench.pc = "xtree" /\ BenchMode # "Library" =>
          \A i \in 0..MaxPairs : EventsOf("snapshot", bench.phase, i) # {}

\* a finished client-mode run: MaxPairs + 1 snapshots, the last one with
\* MaxPairs kept client sides alive
C26_Witness ==
    /\ bench.pc = "done"
    /\ bench.phases = <<"Client">>
    /\ \E k \in EventsOf("snapshot", 1, MaxPairs) : bench.events[k].alive = MaxPairs
    /\ EventsOf("snapshot", 1, 0) # {}
    /\ Len(bench.structs) = MaxPairs

====
